---------------------------- MODULE Spec2Model ----------------------------
(***************************************************************************)
(* SymStride visualisation front end: the symmetry score                   *)
(* (utils/mockData.js), the feedback band matcher (utils/feedbackConfig.js)*)
(* and the live-session state of App (App.jsx, the polling version).        *)
(*                                                                         *)
(* JavaScript numbers are modelled exactly: an angle is an integer number  *)
(* of degrees and every quotient is kept as a fraction num/den until       *)
(* Math.round turns it into an integer.  A metric value handed to the band *)
(* matcher is an integer number of 1/Scale units, and the band limits of   *)
(* feedbackConfig are multiplied by Scale.                                 *)
(***************************************************************************)
EXTENDS Integers, Sequences, FiniteSets, TLC

VARIABLES
    call,              \* the pure-function call under evaluation (its arguments)
    ret,               \* what that call returned, NoRet before it has run
    isRealTime,        \* App state: useState(false)
    realTimeData,      \* App state: useState(null)
    realTimeSeries,    \* App state: useState([])
    sessionAverages,   \* App state: useState(null)
    polls,             \* poll() invocations awaiting fetch / response.json()
    isCancelled,       \* the isCancelled flag of each run of the polling effect
    epoch,             \* number of runs of the polling effect so far
    nextReq,           \* number of the next request fetch() will issue
    appended,          \* history: messages accepted since the session started
    issuedIn,          \* history: the run of the polling effect that issued
                       \* each request 1, 2, ...
    lastOutcome        \* history: how the poll() that finished last ended

vars == <<call, ret, isRealTime, realTimeData, realTimeSeries, sessionAverages,
          polls, isCancelled, epoch, nextReq, appended, issuedIn,
          lastOutcome>>

appVars == <<isRealTime, realTimeData, realTimeSeries, sessionAverages,
             polls, isCancelled, epoch, nextReq, appended, issuedIn,
          lastOutcome>>

-----------------------------------------------------------------------------
(* Bounds of the model. *)

\* angles handed to calculateSymmetry range over -NegAngle .. MaxAngle degrees
NegAngle == 20
MaxAngle == 180

\* a metric value is an integer number of 1/Scale units (0.1 resolution) ...
Scale == 10
\* ... and ranges over -ValueRange .. ValueRange units
ValueRange == 205

\* requests that fetch() issues within a behaviour
MaxPolls == 3
\* runs of the polling effect (live sessions) within a behaviour
MaxSessions == 2
\* a behaviour may start in a live session that is PrefillSlack frames short
\* of a full rolling window
PrefillSlack == 1

-----------------------------------------------------------------------------
(* JavaScript values. *)

Null == [tag |-> "null"]
NoRet == [kind |-> "none", value |-> 0]
Num(v) == [kind |-> "number", value |-> v]
NaN == [kind |-> "NaN", value |-> 0]

Abs(x) == IF x < 0 THEN -x ELSE x
Max(a, b) == IF a >= b THEN a ELSE b

\* Math.floor of the fraction num/den, den > 0
MathFloor(num, den) == num \div den

\* Math.round of the fraction num/den, den > 0: the nearest integer, a tie
\* going up, i.e. floor(num/den + 1/2)
MathRound(num, den) == (2 * num + den) \div (2 * den)

-----------------------------------------------------------------------------
(* utils/mockData.js: calculateSymmetry *)

\* without the Math.max(0, ...) clamp
calculateSymmetryNoClamp(left, right) ==
    LET diff == Abs(left - right)
        sum == left + right
    IN  IF sum = 0
        THEN IF diff = 0 THEN NaN ELSE Num(0)
        ELSE LET den == Abs(sum)
                 raw == IF sum > 0 THEN 100 * den - 200 * diff
                                   ELSE 100 * den + 200 * diff
             IN  Num(MathRound(raw, den))

\* dividing by the left angle instead of the average
calculateSymmetryLeftBase(left, right) ==
    LET diff == Abs(left - right)
    IN  IF left = 0
        THEN IF diff = 0 THEN NaN ELSE Num(0)
        ELSE LET den == Abs(left)
                 raw == IF left > 0 THEN 100 * den - 100 * diff
                                    ELSE 100 * den + 100 * diff
             IN  Num(MathRound(Max(0, raw), den))

\* Math.floor in place of Math.round
calculateSymmetryTruncating(left, right) ==
    LET diff == Abs(left - right)
        sum == left + right
    IN  IF sum = 0
        THEN IF diff = 0 THEN NaN ELSE Num(0)
        ELSE LET den == Abs(sum)
                 raw == IF sum > 0 THEN 100 * den - 200 * diff
                                   ELSE 100 * den + 200 * diff
             IN  Num(MathFloor(Max(0, raw), den))

\* const diff = Math.abs(left - right)
\* const avg = (left + right) / 2              -- the fraction sum/2
\* const symmetry = Math.max(0, 100 - (diff / avg) * 100)
\* return Math.round(symmetry)
\*   sum = 0, diff = 0: 0/0 is NaN, and NaN goes through Math.max and Math.round
\*   sum = 0, diff > 0: diff/0 is Infinity, 100 - Infinity is -Infinity,
\*                      Math.max(0, -Infinity) is 0
\*   otherwise 100 - (diff/avg)*100 is the fraction raw/|sum|
calculateSymmetry(left, right) ==
    LET diff == Abs(left - right)
        sum == left + right
    IN  IF sum = 0
        THEN IF diff = 0 THEN NaN ELSE Num(0)
        ELSE LET den == Abs(sum)
                 raw == IF sum > 0 THEN 100 * den - 200 * diff
                                   ELSE 100 * den + 200 * diff
             IN  Num(MathRound(Max(0, raw), den))

-----------------------------------------------------------------------------
(* utils/feedbackConfig.js: feedbackConfig and getFeedbackForMetric *)

\* { min, max, message }: one band of a metric, its limits in 1/Scale units
Band(min, max, message) ==
    [min |-> min * Scale, max |-> max * Scale, message |-> message]

\* { max, message }: one band of elbow.asymmetry, which has no min
AsymmetryBand(max, message) ==
    [max |-> max * Scale, message |-> message]

feedbackConfig ==
    [
      frontKnee |->
          [ excellent |->
               Band(135, 170,
                    "Excellent front knee angle! You're maintaining optimal form for shock absorption."),
            needsImprovement |->
               Band(126, 135,
                    "Could be improved. Low running efficiency, aim for over 135 degrees."),
            bad |->
               Band(0, 126,
                    "Excessive flexion. Low running efficiency and increased risk of injury. Aim for over 135 degrees.") ],
      backKnee |->
          [ excellent |->
               Band(100, 116,
                    "Ideal back knee angle! This indicates excellent leg recovery."),
            needsImprovement |->
               Band(117, 125,
                    "Could be improved. Back knee is too open. Aim for under 116 degrees."),
            bad |->
               Band(125, 200,
                    "Not enough flexion. Needs more energy to maintain speed, movement amplitude is restricted.") ],
      elbow |->
          [ excellent |->
               Band(76, 86,
                    "Excellent elbow angles! Your arm swing is optimal."),
            needsImprovement |->
               Band(87, 200,
                    "Needs improvement. Not enough flexion, loss of efficiency. Avoid pushing backward."),
            bad |->
               Band(0, 76,
                    "Too much flexion. Loss of efficiency, increased risk of injury."),
            asymmetry |->
               [ excellent |->
                    AsymmetryBand(5,
                        "Excellent arm symmetry! Both arms are working in perfect balance."),
                 good |->
                    AsymmetryBand(10,
                        "Good arm symmetry. Minor differences are normal."),
                 needsImprovement |->
                    AsymmetryBand(20,
                        "Your arms show some asymmetry. Focus on balanced arm swing."),
                 bad |->
                    AsymmetryBand(200,
                        "Significant arm asymmetry detected. Work on synchronizing your arm movements.") ] ],
      backToHead |->
          [ excellent |->
               Band(-15, 5,
                    "Perfect posture! Your back-to-head alignment is ideal. Keep your gaze looking forward."),
            good |->
               Band(-18, -15,
                    "Good posture. You're maintaining a relatively straight gaze."),
            tooForward |->
               Band(6, 200,
                    "Your gaze is too focused on the ground, lift gaze to improve posture. Risk of slouched posture."),
            tooBackward |->
               Band(-200, -18,
                    "You're gazing at the sky, lower gaze to improve posture. Poor running posture.") ],
      kneeSymmetry |->
          [ excellent |->
               Band(90, 100,
                    "Excellent knee symmetry! Both legs are working equally."),
            good |->
               Band(75, 90,
                    "Good knee symmetry. Minor differences are normal."),
            needsImprovement |->
               Band(51, 75,
                    "Your knee angles show asymmetry. Focus on balanced leg movement."),
            bad |->
               Band(0, 50,
                    "Significant knee asymmetry detected. Consider working on leg strength balance.") ]
    ]

\* undefined: a missing property, or what a function that falls off its end
\* returns
Undefined == [tag |-> "undefined"]

\* names every object inherits from Object.prototype; each is a function
\* (__proto__ is the prototype object itself), which is truthy and has none
\* of the band properties
ObjectPrototypeKeys ==
    {"constructor", "toString", "toLocaleString", "valueOf", "hasOwnProperty",
     "isPrototypeOf", "propertyIsEnumerable", "__defineGetter__",
     "__defineSetter__", "__lookupGetter__", "__lookupSetter__", "__proto__"}
InheritedFunction == [tag |-> "function"]

\* config[metricType]
Lookup(config, metricType) ==
    IF metricType \in DOMAIN config THEN config[metricType]
    ELSE IF metricType \in ObjectPrototypeKeys THEN InheritedFunction
    ELSE Undefined

\* const checkRange = (threshold) => { ... }
\*   false when the band is missing or lacks min or max, otherwise
\*   value >= min && value <= max
checkRange(metricConfig, threshold, value) ==
    IF threshold \notin DOMAIN metricConfig
    THEN FALSE
    ELSE LET band == metricConfig[threshold]
         IN  IF "min" \notin DOMAIN band \/ "max" \notin DOMAIN band
             THEN FALSE
             ELSE value >= band.min /\ value <= band.max

\* { type, threshold, message: metricConfig[threshold].message, value }
BandFeedback(metricConfig, type, threshold, value) ==
    [type |-> type, threshold |-> threshold,
     message |-> metricConfig[threshold].message, value |-> value]

\* { type: 'needsImprovement', threshold: 'needsImprovement',
\*   message: 'No specific feedback available', value }
FallbackFeedback(value) ==
    [type |-> "needsImprovement", threshold |-> "needsImprovement",
     message |-> "No specific feedback available", value |-> value]

\* { type: 'info', message: `No feedback available for ${metricType}` }
NoConfigFeedback(metricType) ==
    [type |-> "info", message |-> "No feedback available for " \o metricType]

\* the bands checked worst first: bad before needsImprovement, good, excellent
getFeedbackForMetricWorstFirst(metricType, value, config) ==
    LET metricConfig == Lookup(config, metricType)
    IN  IF metricConfig = Undefined
        THEN NoConfigFeedback(metricType)
        ELSE IF checkRange(metricConfig, "bad", value)
             THEN BandFeedback(metricConfig, "bad", "bad", value)
             ELSE IF checkRange(metricConfig, "needsImprovement", value)
             THEN BandFeedback(metricConfig, "needsImprovement", "needsImprovement", value)
             ELSE IF checkRange(metricConfig, "good", value)
             THEN BandFeedback(metricConfig, "good", "good", value)
             ELSE IF checkRange(metricConfig, "excellent", value)
             THEN BandFeedback(metricConfig, "excellent", "excellent", value)
             ELSE IF checkRange(metricConfig, "tooBackward", value)
             THEN BandFeedback(metricConfig, "bad", "tooBackward", value)
             ELSE IF checkRange(metricConfig, "tooForward", value)
             THEN BandFeedback(metricConfig, "bad", "tooForward", value)
             ELSE FallbackFeedback(value)

\* the final return left out: a value in no band gives undefined
getFeedbackForMetricNoFallback(metricType, value, config) ==
    LET metricConfig == Lookup(config, metricType)
    IN  IF metricConfig = Undefined
        THEN NoConfigFeedback(metricType)
        ELSE IF checkRange(metricConfig, "excellent", value)
             THEN BandFeedback(metricConfig, "excellent", "excellent", value)
             ELSE IF checkRange(metricConfig, "good", value)
             THEN BandFeedback(metricConfig, "good", "good", value)
             ELSE IF checkRange(metricConfig, "needsImprovement", value)
             THEN BandFeedback(metricConfig, "needsImprovement", "needsImprovement", value)
             ELSE IF checkRange(metricConfig, "bad", value)
             THEN BandFeedback(metricConfig, "bad", "bad", value)
             ELSE IF checkRange(metricConfig, "tooForward", value)
             THEN BandFeedback(metricConfig, "bad", "tooForward", value)
             ELSE IF checkRange(metricConfig, "tooBackward", value)
             THEN BandFeedback(metricConfig, "bad", "tooBackward", value)
             ELSE Undefined

\* const metricConfig = config[metricType]
\* if (!metricConfig) return { type: 'info', ... }
\* if (checkRange('excellent')) return ...   and so on through 'good',
\* 'needsImprovement', 'bad', 'tooForward', 'tooBackward' (the last two with
\* type 'bad'), then the generic needsImprovement fallback
getFeedbackForMetric(metricType, value, config) ==
    LET metricConfig == Lookup(config, metricType)
    IN  IF metricConfig = Undefined
        THEN NoConfigFeedback(metricType)
        ELSE IF checkRange(metricConfig, "excellent", value)
             THEN BandFeedback(metricConfig, "excellent", "excellent", value)
             ELSE IF checkRange(metricConfig, "good", value)
             THEN BandFeedback(metricConfig, "good", "good", value)
             ELSE IF checkRange(metricConfig, "needsImprovement", value)
             THEN BandFeedback(metricConfig, "needsImprovement", "needsImprovement", value)
             ELSE IF checkRange(metricConfig, "bad", value)
             THEN BandFeedback(metricConfig, "bad", "bad", value)
             ELSE IF checkRange(metricConfig, "tooForward", value)
             THEN BandFeedback(metricConfig, "bad", "tooForward", value)
             ELSE IF checkRange(metricConfig, "tooBackward", value)
             THEN BandFeedback(metricConfig, "bad", "tooBackward", value)
             ELSE FallbackFeedback(value)

-----------------------------------------------------------------------------
(* App.jsx: the live session.                                               *)
(*                                                                         *)
(* A poll is one invocation of poll(): it is in flight from its fetch()     *)
(* until its continuation has run.  Requests are numbered in the order      *)
(* fetch() issues them and the message that answers request n carries       *)
(* frame n.  A click on the toggle renders and runs the effects that depend *)
(* on isRealTime in the same task, so toggleRealTime is one action.         *)

\* return next.slice(-300)
WindowSize == 300

\* seq.slice(-n): the last n elements, all of them when there are fewer
SliceLast(seq, n) ==
    IF Len(seq) <= n THEN seq ELSE SubSeq(seq, Len(seq) - n + 1, Len(seq))

\* seq.slice(0, n): the first n elements
SliceFirst(seq, n) ==
    IF Len(seq) <= n THEN seq ELSE SubSeq(seq, 1, n)

\* the window keeps the oldest entries: next.slice(0, 300)
RollingWindowKeepOldest(prev, message) ==
    SliceFirst(Append(prev, message), WindowSize)

\* no functional updater: setRealTimeSeries([...realTimeSeries, message]
\* .slice(-300)) with the realTimeSeries of the render that ran the polling
\* effect, which is the empty buffer the session started with
RollingWindowStaleClosure(prev, message) ==
    SliceLast(Append(<<>>, message), WindowSize)

\* setRealTimeSeries((prev) => { const next = [...prev, message]
\*                               return next.slice(-300) })
RollingWindow(prev, message) ==
    SliceLast(Append(prev, message), WindowSize)

\* the session averages a backend message may carry under either key
AveragesIn(key, n) == [from |-> key, totalFrames |-> n]

\* the bodies response.json() may resolve to for request n: the live sample
\* of frame n, with or without sessionAverages and averages
Messages(n) ==
    [frame : {n},
     sessionAverages : {Null, AveragesIn("sessionAverages", n)},
     averages : {Null, AveragesIn("averages", n)}]

\* const { sessionAverages, averages, ...realtimeOnly } = message
realtimeOnly(message) == [frame |-> message.frame]

\* the live sample of a frame that carries no averages
Sample(n) == [frame |-> n, sessionAverages |-> Null, averages |-> Null]

\* useState initial values; the polling effect returns at once while
\* isRealTime is false and the reset effect sets what is already there
AppInit ==
    /\ isRealTime = FALSE
    /\ realTimeData = Null
    /\ realTimeSeries = <<>>
    /\ sessionAverages = Null
    /\ polls = {}
    /\ isCancelled = <<>>
    /\ epoch = 0
    /\ nextReq = 1
    /\ appended = <<>>
    /\ issuedIn = <<>>
    /\ lastOutcome = "none"

\* a live session in which n frames have arrived so far, one poll at a time
\* and none carrying averages (the requests before request 1 are numbered
\* 1 - n .. 0): the state n ticks and n responses lead to from AppInit
LiveAfter(n) ==
    /\ isRealTime = TRUE
    /\ realTimeData = realtimeOnly(Sample(0))
    /\ realTimeSeries = [i \in 1 .. n |-> Sample(i - n)]
    /\ sessionAverages = Null
    /\ polls = {}
    /\ isCancelled = <<FALSE>>
    /\ epoch = 1
    /\ nextReq = 1
    /\ appended = [i \in 1 .. n |-> Sample(i - n)]
    /\ issuedIn = <<>>
    /\ lastOutcome = "none"

Init ==
    /\ call = [fn |-> "App"]
    /\ ret = NoRet
    /\ \/ AppInit
       \/ LiveAfter(WindowSize - PrefillSlack)

\* const response = await fetch(...): poll() of the effect's run-th run is
\* suspended on request nextReq
StartPoll(run) ==
    /\ polls' = polls \cup {[req |-> nextReq, epoch |-> run, stage |-> "fetch"]}
    /\ nextReq' = nextReq + 1
    /\ issuedIn' = Append(issuedIn, run)

\* the second effect clearing sessionAverages when the session stops, not
\* when the next one starts
toggleRealTimeClearsOnStop ==
    /\ isRealTime' = ~isRealTime
    /\ IF ~isRealTime
       THEN /\ epoch < MaxSessions
            /\ nextReq <= MaxPolls
            /\ epoch' = epoch + 1
            /\ isCancelled' = Append(isCancelled, FALSE)
            /\ StartPoll(epoch + 1)
            /\ appended' = <<>>
            /\ UNCHANGED <<realTimeData, realTimeSeries, sessionAverages>>
       ELSE /\ isCancelled' = [isCancelled EXCEPT ![epoch] = TRUE]
            /\ realTimeData' = Null
            /\ realTimeSeries' = <<>>
            /\ sessionAverages' = Null
            /\ UNCHANGED <<polls, epoch, nextReq, appended, issuedIn>>
    /\ UNCHANGED <<call, ret, lastOutcome>>

\* onClick={toggleRealTime}: setIsRealTime(!isRealTime), then the effects.
\* Switching on: the polling effect runs (a new isCancelled = false,
\* setInterval, poll() at once) and the second effect clears sessionAverages.
\* Switching off: the polling effect's cleanup sets isCancelled and clears
\* the interval, and the second effect resets realTimeData and realTimeSeries.
toggleRealTime ==
    /\ isRealTime' = ~isRealTime
    /\ IF ~isRealTime
       THEN /\ epoch < MaxSessions
            /\ nextReq <= MaxPolls
            /\ epoch' = epoch + 1
            /\ isCancelled' = Append(isCancelled, FALSE)
            /\ StartPoll(epoch + 1)
            /\ sessionAverages' = Null
            /\ appended' = <<>>
            /\ UNCHANGED <<realTimeData, realTimeSeries>>
       ELSE /\ isCancelled' = [isCancelled EXCEPT ![epoch] = TRUE]
            /\ realTimeData' = Null
            /\ realTimeSeries' = <<>>
            /\ UNCHANGED <<sessionAverages, polls, epoch, nextReq, appended,
                           issuedIn>>
    /\ UNCHANGED <<call, ret, lastOutcome>>

\* setInterval(poll, 200) fires: poll() starts whether or not the earlier
\* polls have finished
IntervalTick ==
    /\ isRealTime
    /\ nextReq <= MaxPolls
    /\ StartPoll(epoch)
    /\ UNCHANGED <<call, ret, isRealTime, realTimeData, realTimeSeries,
                   sessionAverages, isCancelled, epoch, appended, lastOutcome>>

\* the check left out: every response is applied
CancelCheckMissing(p) == FALSE

\* the check made on the current mode instead of the run's own flag
CancelledByCurrentMode(p) == ~isRealTime

\* if (isCancelled) return, read in the closure of the run that started p
Cancelled(p) == isCancelled[p.epoch]

\* averages computed from the rolling buffer when the message carries none
NextSessionAveragesComputed(prev, message) ==
    IF message.sessionAverages # Null THEN message.sessionAverages
    ELSE IF message.averages # Null THEN message.averages
    ELSE [from |-> "realTimeSeries", totalFrames |-> Len(realTimeSeries) + 1]

\* if (message.sessionAverages || message.averages)
\*   setSessionAverages(message.sessionAverages || message.averages)
\* the new sessionAverages, prev when the message carries neither
NextSessionAverages(prev, message) ==
    IF message.sessionAverages # Null THEN message.sessionAverages
    ELSE IF message.averages # Null THEN message.averages
    ELSE prev

\* fetch() rejects (network error): catch (error) { console.error(...) }
FetchRejects(p) ==
    /\ p.stage = "fetch"
    /\ polls' = polls \ {p}
    /\ lastOutcome' = "networkError"
    /\ UNCHANGED <<call, ret, isRealTime, realTimeData, realTimeSeries,
                   sessionAverages, isCancelled, epoch, nextReq, appended,
                   issuedIn>>

\* if (!response.ok) { console.error(...); return }
FetchNotOk(p) ==
    /\ p.stage = "fetch"
    /\ polls' = polls \ {p}
    /\ lastOutcome' = "httpError"
    /\ UNCHANGED <<call, ret, isRealTime, realTimeData, realTimeSeries,
                   sessionAverages, isCancelled, epoch, nextReq, appended,
                   issuedIn>>

\* response.ok: const message = await response.json()
FetchOk(p) ==
    /\ p.stage = "fetch"
    /\ polls' = (polls \ {p}) \cup {[p EXCEPT !.stage = "json"]}
    /\ UNCHANGED <<call, ret, isRealTime, realTimeData, realTimeSeries,
                   sessionAverages, isCancelled, epoch, nextReq, appended,
                   issuedIn, lastOutcome>>

\* a catch block that also drops the live data
JsonRejectsResetsData(p) ==
    /\ p.stage = "json"
    /\ polls' = polls \ {p}
    /\ lastOutcome' = "parseError"
    /\ realTimeData' = Null
    /\ realTimeSeries' = <<>>
    /\ UNCHANGED <<call, ret, isRealTime, sessionAverages, isCancelled, epoch,
                   nextReq, appended, issuedIn>>

\* response.json() rejects (unparseable body): catch (error) { ... }
JsonRejects(p) ==
    /\ p.stage = "json"
    /\ polls' = polls \ {p}
    /\ lastOutcome' = "parseError"
    /\ UNCHANGED <<call, ret, isRealTime, realTimeData, realTimeSeries,
                   sessionAverages, isCancelled, epoch, nextReq, appended,
                   issuedIn>>

\* response.json() resolves to message and poll() runs to its end:
\*   if (isCancelled) return
\*   if (message.sessionAverages || message.averages)
\*     setSessionAverages(message.sessionAverages || message.averages)
\*   setRealTimeData(realtimeOnly)
\*   setRealTimeSeries((prev) => [...prev, message].slice(-300))
JsonResolves(p, message) ==
    /\ p.stage = "json"
    /\ polls' = polls \ {p}
    /\ IF Cancelled(p)
       THEN /\ lastOutcome' = "cancelled"
            /\ UNCHANGED <<realTimeData, realTimeSeries, sessionAverages, appended>>
       ELSE /\ lastOutcome' = "accepted"
            /\ sessionAverages' = NextSessionAverages(sessionAverages, message)
            /\ realTimeData' = realtimeOnly(message)
            /\ realTimeSeries' = RollingWindow(realTimeSeries, message)
            /\ appended' = Append(appended, message)
    /\ UNCHANGED <<call, ret, isRealTime, isCancelled, epoch, nextReq, issuedIn>>

Next ==
    \/ toggleRealTime
    \/ IntervalTick
    \/ \E p \in polls : FetchRejects(p)
    \/ \E p \in polls : FetchNotOk(p)
    \/ \E p \in polls : FetchOk(p)
    \/ \E p \in polls : JsonRejects(p)
    \/ \E p \in polls : \E message \in Messages(p.req) : JsonResolves(p, message)

Spec == Init /\ [][Next]_vars

-----------------------------------------------------------------------------
(* Specification of the symmetry score: every pair of angles of the bounded *)
(* range is an input, and the one action evaluates calculateSymmetry on it. *)

Angles == (0 - NegAngle) .. MaxAngle

InitSymmetry ==
    /\ call \in [fn : {"calculateSymmetry"}, left : Angles, right : Angles]
    /\ ret = NoRet
    /\ AppInit

CallCalculateSymmetry ==
    /\ call.fn = "calculateSymmetry"
    /\ ret = NoRet
    /\ ret' = calculateSymmetry(call.left, call.right)
    /\ UNCHANGED <<call, appVars>>

NextSymmetry == CallCalculateSymmetry

SpecSymmetry == InitSymmetry /\ [][NextSymmetry]_vars

SymmetryReturned == call.fn = "calculateSymmetry" /\ ret # NoRet

-----------------------------------------------------------------------------
(* Claims about the symmetry score, checked under SpecSymmetry. *)

\* C1: for every pair of angles (l, r) with l + r > 0, calculateSymmetry(l, r)
\* is max(0, 100 - |l - r| / ((l + r) / 2) * 100) rounded to an integer: a
\* number R no further than 1/2 from that value.  With s = l + r > 0 the value
\* is the fraction exact/s, so the distance is |R * s - exact| / s.
C1_SymmetryFormula ==
    (SymmetryReturned /\ call.left + call.right > 0) =>
        LET s == call.left + call.right
            exact == Max(0, 100 * s - 200 * Abs(call.left - call.right))
        IN  /\ ret.kind = "number"
            /\ 2 * Abs(ret.value * s - exact) <= s

C1_Witness ==
    /\ SymmetryReturned
    /\ call.left = 100 /\ call.right = 130
    /\ ret = Num(74)

\* C2 (as claimed): for all (l, r) with l = r the symmetry score is 100.
C2_EqualAnglesGive100 ==
    (SymmetryReturned /\ call.left = call.right) => ret = Num(100)

\* C3 (as claimed): when l + r = 0 the symmetry score is the number 100, not
\* NaN, Infinity or 0.
C3_ZeroSumGives100 ==
    (SymmetryReturned /\ call.left + call.right = 0) => ret = Num(100)

\* C4: the symmetry score is swap invariant: calculateSymmetry(l, r) is the
\* same value as calculateSymmetry(r, l), for every pair (l, r).
C4_SwapInvariant ==
    SymmetryReturned => ret = calculateSymmetry(call.right, call.left)

C4_Witness ==
    /\ SymmetryReturned
    /\ call.left = 170 /\ call.right = 140
    /\ ret.kind = "number" /\ ret.value > 0 /\ ret.value < 100

\* C5 (as claimed): Scenario C: calculateSymmetry(160, 160) is 100 and
\* calculateSymmetry(150, 170) is 87.
C5_ScenarioC_Original ==
    /\ (SymmetryReturned /\ call.left = 160 /\ call.right = 160) => ret = Num(100)
    /\ (SymmetryReturned /\ call.left = 150 /\ call.right = 170) => ret = Num(87)

\* C5 (amended): Scenario C: calculateSymmetry(160, 160) is 100 and
\* calculateSymmetry(150, 170) is 88: 100 - 20/160*100 is 87.5, and
\* Math.round takes a tie up.
C5_ScenarioC ==
    /\ (SymmetryReturned /\ call.left = 160 /\ call.right = 160) => ret = Num(100)
    /\ (SymmetryReturned /\ call.left = 150 /\ call.right = 170) => ret = Num(88)

C5_Witness ==
    /\ SymmetryReturned
    /\ call.left = 150 /\ call.right = 170
    /\ ret = Num(88)

\* C6 (as claimed): for every pair of numeric inputs (l, r), calculateSymmetry
\* returns an integer between 0 and 100 inclusive.
C6_ScoreIsPercentage ==
    SymmetryReturned =>
        /\ ret.kind = "number"
        /\ ret.value >= 0
        /\ ret.value <= 100

-----------------------------------------------------------------------------
(* Specification of the band matcher: every metric name of feedbackConfig,  *)
(* one that has no configuration and one that names an inherited property,  *)
(* with every value of the bounded range, is an input, and the one action   *)
(* evaluates getFeedbackForMetric on it with the default config.            *)

MetricTypes == DOMAIN feedbackConfig \cup {"hip", "toString"}
Values == (0 - ValueRange * Scale) .. (ValueRange * Scale)

InitFeedback ==
    /\ call \in [fn : {"getFeedbackForMetric"}, metricType : MetricTypes, value : Values]
    /\ ret = NoRet
    /\ AppInit

CallGetFeedbackForMetric ==
    /\ call.fn = "getFeedbackForMetric"
    /\ ret = NoRet
    /\ ret' = getFeedbackForMetric(call.metricType, call.value, feedbackConfig)
    /\ UNCHANGED <<call, appVars>>

NextFeedback == CallGetFeedbackForMetric

SpecFeedback == InitFeedback /\ [][NextFeedback]_vars

FeedbackReturned == call.fn = "getFeedbackForMetric" /\ ret # NoRet

-----------------------------------------------------------------------------
(* Claims about the band matcher, checked under SpecFeedback. *)

\* the priority order of the claim, and the bands of a metric that hold a value
PriorityOrder ==
    <<"excellent", "good", "needsImprovement", "bad", "tooForward", "tooBackward">>

Contains(metricType, threshold, value) ==
    /\ threshold \in DOMAIN feedbackConfig[metricType]
    /\ "min" \in DOMAIN feedbackConfig[metricType][threshold]
    /\ feedbackConfig[metricType][threshold].min <= value
    /\ value <= feedbackConfig[metricType][threshold].max

Matching(metricType, value) ==
    {i \in 1 .. Len(PriorityOrder) : Contains(metricType, PriorityOrder[i], value)}

Returns(metricType, units, threshold) ==
    (FeedbackReturned /\ call.metricType = metricType /\ call.value = units * Scale) =>
        /\ ret.threshold = threshold
        /\ ret.message = feedbackConfig[metricType][threshold].message

\* C7: getFeedbackForMetric checks the bands in the order excellent, good,
\* needsImprovement, bad, tooForward, tooBackward and the first band whose
\* [min, max] holds the value wins: its threshold and message are returned.
\* For the values that lie in two bands (frontKnee 135 and 126, backKnee 125,
\* elbow 76, backToHead -15 and -18) that is the higher-priority band.
C7_FirstBandWins ==
    /\ (FeedbackReturned /\ call.metricType \in DOMAIN feedbackConfig
                         /\ Matching(call.metricType, call.value) # {}) =>
            LET first == CHOOSE i \in Matching(call.metricType, call.value) :
                            \A j \in Matching(call.metricType, call.value) : i <= j
            IN  /\ ret.threshold = PriorityOrder[first]
                /\ ret.message =
                       feedbackConfig[call.metricType][PriorityOrder[first]].message
    /\ Returns("frontKnee", 135, "excellent")
    /\ Returns("frontKnee", 126, "needsImprovement")
    /\ Returns("backKnee", 125, "needsImprovement")
    /\ Returns("elbow", 76, "excellent")
    /\ Returns("backToHead", -15, "excellent")
    /\ Returns("backToHead", -18, "good")

C7_Witness ==
    /\ FeedbackReturned
    /\ call.metricType = "backToHead" /\ call.value = (-18) * Scale
    /\ Cardinality(Matching(call.metricType, call.value)) = 2
    /\ ret.threshold = "good"

\* C8: getFeedbackForMetric never drops feedback: for any metric name and
\* any value it returns an object with a type and a non-empty message, and
\* for a configured metric whose bands do not hold the value it returns type
\* and threshold 'needsImprovement' with 'No specific feedback available'.
C8_NeverDropsFeedback ==
    FeedbackReturned =>
        /\ "type" \in DOMAIN ret
        /\ "message" \in DOMAIN ret
        /\ ret.type # ""
        /\ ret.message # ""
        /\ (call.metricType \in DOMAIN feedbackConfig
              /\ Matching(call.metricType, call.value) = {}) =>
                /\ ret.type = "needsImprovement"
                /\ ret.threshold = "needsImprovement"
                /\ ret.message = "No specific feedback available"

C8_Witness ==
    /\ FeedbackReturned
    /\ call.metricType = "frontKnee" /\ call.value = 171 * Scale
    /\ Matching(call.metricType, call.value) = {}
    /\ ret.message = "No specific feedback available"


-----------------------------------------------------------------------------
(* Claims about the live session, checked under Spec. *)

\* C9: the rolling live buffer never holds more than 300 entries, and after
\* n frames have been appended since the session started it holds exactly
\* the most recent min(n, 300) of them, in the order they arrived.
C9_RollingBuffer ==
    /\ Len(realTimeSeries) <= 300
    /\ isRealTime =>
          LET n == Len(appended)
              k == IF n <= 300 THEN n ELSE 300
          IN  /\ Len(realTimeSeries) = k
              /\ \A i \in 1 .. k : realTimeSeries[i] = appended[n - k + i]

C9_Witness ==
    /\ isRealTime
    /\ Len(appended) = 302
    /\ Len(realTimeSeries) = 300
    /\ realTimeSeries[1] = appended[3]
    /\ realTimeSeries[300] = appended[302]

\* C10 (as claimed): frames reach the display in strictly increasing order:
\* whatever the interleaving of overlapping polls, the response to an earlier
\* request is never appended to realTimeSeries, nor stored as realTimeData,
\* after the response to a later request.
C10_FramesInOrder ==
    /\ \A i, j \in 1 .. Len(realTimeSeries) :
          i < j => realTimeSeries[i].frame < realTimeSeries[j].frame
    /\ (realTimeData # Null) =>
          \A i \in 1 .. Len(realTimeSeries) :
              realTimeSeries[i].frame <= realTimeData.frame

\* how a poll can fail: fetch rejects, the status is not OK, the body does
\* not parse
Failures == {"networkError", "httpError", "parseError"}

\* a step in which a poll() ran to its end
PollFinished == Cardinality(polls') < Cardinality(polls)

\* a step in which a response was accepted: its message joins the history
ResponseAccepted == Len(appended') = Len(appended) + 1

\* C11: no lost update: every response accepted during a live session is
\* appended to realTimeSeries exactly once, so after k accepted responses
\* since the session started the buffer holds min(k, 300) entries, whatever
\* the order in which overlapping polls complete.
C11_NoLostUpdate ==
    /\ [](isRealTime =>
             Len(realTimeSeries) =
                 (IF Len(appended) <= 300 THEN Len(appended) ELSE 300))
    /\ [][\A p \in polls : \A message \in Messages(p.req) :
             (JsonResolves(p, message) /\ ~Cancelled(p)) =>
                 LET kept == IF Len(realTimeSeries) < 300
                             THEN Len(realTimeSeries) + 1 ELSE 300
                     dropped == Len(realTimeSeries) + 1 - kept
                 IN  /\ ResponseAccepted
                     /\ Len(realTimeSeries') = kept
                     /\ realTimeSeries'[kept] = message
                     /\ \A i \in 1 .. (kept - 1) :
                           realTimeSeries'[i] = realTimeSeries[i + dropped]]_vars

C11_Witness ==
    /\ isRealTime
    /\ lastOutcome = "accepted"
    /\ Len(appended) = 2
    /\ appended[1].frame = 2 /\ appended[2].frame = 1
    /\ Len(realTimeSeries) = 2

\* C13: a failed poll (non-OK status, network error, unparseable body)
\* produces no frame and does not end the session: it leaves realTimeData,
\* realTimeSeries, sessionAverages and isRealTime as they were, and in a live
\* session the next interval tick starts a poll again.
C13_FailedPollChangesNothing ==
    /\ [][(PollFinished /\ lastOutcome' \in Failures) =>
             UNCHANGED <<realTimeData, realTimeSeries, sessionAverages, isRealTime>>]_vars
    /\ []((lastOutcome \in Failures /\ isRealTime /\ nextReq <= MaxPolls) =>
             ENABLED IntervalTick)

C13_Witness ==
    /\ isRealTime
    /\ epoch = 1
    /\ lastOutcome = "parseError"
    /\ Len(appended) = 1
    /\ realTimeData = realtimeOnly(appended[1])
    /\ realTimeSeries = appended

\* C14: whenever the app is offline, realTimeData is null and realTimeSeries
\* is empty, after any sequence of toggles and whatever responses were still
\* in flight when the session was stopped.
C14_OfflineReleasesLiveState ==
    ~isRealTime => (realTimeData = Null /\ realTimeSeries = <<>>)

C14_Witness ==
    /\ ~isRealTime
    /\ epoch = 2
    /\ lastOutcome = "cancelled"
    /\ realTimeData = Null
    /\ realTimeSeries = <<>>

\* C17: the rolling buffer is never a source of session statistics:
\* sessionAverages is null or a value carried by an accepted backend message
\* (its sessionAverages or its averages), and accepting a frame that carries
\* no averages leaves sessionAverages unchanged.
C17_AveragesOnlyFromMessages ==
    /\ []((sessionAverages # Null) =>
             \E i \in 1 .. Len(appended) :
                 sessionAverages \in ({appended[i].sessionAverages,
                                       appended[i].averages} \ {Null}))
    /\ [][(ResponseAccepted
             /\ appended'[Len(appended')].sessionAverages = Null
             /\ appended'[Len(appended')].averages = Null) =>
               sessionAverages' = sessionAverages]_vars

C17_Witness ==
    /\ isRealTime
    /\ lastOutcome = "accepted"
    /\ Len(appended) = 2
    /\ appended[2] = Sample(appended[2].frame)
    /\ sessionAverages = appended[1].averages
    /\ sessionAverages # Null

\* the polling effect's run that issued the request behind frame f (the
\* frames before request 1 belong to the first run)
RunOf(f) == IF f <= 0 THEN 1 ELSE issuedIn[f]

\* C18: a response whose request was issued in a session that has since
\* been stopped never changes state: it updates none of realTimeData,
\* realTimeSeries and sessionAverages, whether it arrives offline or after a
\* new session has started, so every frame on display was requested by the
\* session now running.
C18_StaleResponseIgnored ==
    /\ [][\A p \in polls : \A message \in Messages(p.req) :
             (JsonResolves(p, message) /\ (p.epoch < epoch \/ ~isRealTime)) =>
                 UNCHANGED <<realTimeData, realTimeSeries, sessionAverages>>]_vars
    /\ [](/\ \A i \in 1 .. Len(realTimeSeries) :
                RunOf(realTimeSeries[i].frame) = epoch
          /\ (realTimeData # Null) => RunOf(realTimeData.frame) = epoch)

C18_Witness ==
    /\ isRealTime
    /\ epoch = 2
    /\ lastOutcome = "cancelled"
    /\ Len(realTimeSeries) = 1
    /\ RunOf(realTimeSeries[1].frame) = 2

\* C19: session averages survive the end of the session and are cleared when
\* the next one starts: no step that ends offline (the switch off included)
\* changes sessionAverages, and the switch on leaves sessionAverages null
\* with no frame of the new session on display yet.
C19_AveragesKeptUntilNextSession ==
    [][/\ (~isRealTime') => sessionAverages' = sessionAverages
       /\ (~isRealTime /\ isRealTime') =>
             (sessionAverages' = Null /\ realTimeData' = Null
                                      /\ realTimeSeries' = <<>>)]_vars

C19_Witness ==
    /\ ~isRealTime
    /\ sessionAverages # Null
    /\ lastOutcome = "cancelled"

-----------------------------------------------------------------------------
(* The coverage of the configured bands, checked under SpecFeedback. *)

\* the bands of a metric that have a range (elbow.asymmetry has none)
RangedBands(metricType) ==
    {t \in DOMAIN feedbackConfig[metricType] :
        "min" \in DOMAIN feedbackConfig[metricType][t]}

SmallestMin(metricType) ==
    CHOOSE m \in {feedbackConfig[metricType][t].min : t \in RangedBands(metricType)} :
        \A t \in RangedBands(metricType) : m <= feedbackConfig[metricType][t].min

LargestMax(metricType) ==
    CHOOSE m \in {feedbackConfig[metricType][t].max : t \in RangedBands(metricType)} :
        \A t \in RangedBands(metricType) : m >= feedbackConfig[metricType][t].max

\* C20 (as claimed): within each metric's configured range there are no gaps
\* between bands: for every metric of feedbackConfig and every value at 0.1
\* resolution between the metric's smallest band min and largest band max,
\* getFeedbackForMetric returns a configured band that holds the value and
\* never the generic fallback.
C20_NoGapsBetweenBands ==
    (/\ FeedbackReturned
     /\ call.metricType \in DOMAIN feedbackConfig
     /\ SmallestMin(call.metricType) <= call.value
     /\ call.value <= LargestMax(call.metricType)) =>
        /\ ret # FallbackFeedback(call.value)
        /\ ret.threshold \in RangedBands(call.metricType)
        /\ Contains(call.metricType, ret.threshold, call.value)

-----------------------------------------------------------------------------
(* components/Dashboard.jsx, RealTimeFeedback.jsx, FormAnalysis.jsx: what the
   views make of realTimeData and of a session summary. Numbers are
   Num(v) with v in 1/Scale units, as for the band matcher; a property that
   is missing reads as Undefined. *)

Get(object, key) == IF key \in DOMAIN object THEN object[key] ELSE Undefined
Nullish(x) == x = Null \/ x = Undefined

\* if (x), x || y, x && y, x ? a : b
Truthy(x) == ~Nullish(x) /\ x # NaN /\ x # Num(0)
Or(x, y) == IF Truthy(x) THEN x ELSE y

\* the number an operand of + - < > stands for: null is 0, undefined is NaN
ToNumber(x) == IF x = Null THEN Num(0) ELSE IF x = Undefined THEN NaN ELSE x
Plus(a, b) ==
    IF ToNumber(a) = NaN \/ ToNumber(b) = NaN THEN NaN
    ELSE Num(ToNumber(a).value + ToNumber(b).value)
Minus(a, b) ==
    IF ToNumber(a) = NaN \/ ToNumber(b) = NaN THEN NaN
    ELSE Num(ToNumber(a).value - ToNumber(b).value)
MathAbs(x) == IF ToNumber(x) = NaN THEN NaN ELSE Num(Abs(ToNumber(x).value))
\* x < n and x > n for a literal n given in 1/per units; false for NaN
LessThan(x, n) == ToNumber(x) # NaN /\ ToNumber(x).value < n
GreaterThan(x, n) == ToNumber(x) # NaN /\ ToNumber(x).value > n

\* a thrown exception, and the text 'N/A'
Throw(error) == [threw |-> error]
NotAvailable == [kind |-> "string", text |-> "N/A"]

\* x.toFixed(1) of a number: the text of its tenths, rounded to the nearest,
\* a tie away from zero; 'NaN' for NaN
toFixed1(x) ==
    IF x = NaN THEN [kind |-> "string", text |-> "NaN"]
    ELSE LET tenths == (Abs(x.value) * 10 + Scale \div 2) \div Scale
         IN  [kind |-> "string",
              tenths |-> IF x.value < 0 THEN 0 - tenths ELSE tenths]

\* without the default: the list is returned as collected, empty if no
\* condition holds
generateRecommendationsNoDefault(jointAngles, symmetrySum, asymmetryScore) ==
    LET rec(cond, text) == IF cond THEN <<text>> ELSE <<>>
    IN  rec(LessThan(symmetrySum, 2 * 75 * Scale),
            "Focus on improving overall symmetry between left and right sides")
        \o rec(LessThan(Get(jointAngles.knee, "symmetry"), 75 * Scale),
            "Work on balancing knee angles between both legs")
        \o rec(LessThan(Get(jointAngles.elbow, "symmetry"), 75 * Scale),
            "Maintain balanced arm swing for better symmetry")
        \o rec(GreaterThan(MathAbs(Get(jointAngles.backToHead, "angle")), 10 * Scale),
            "Keep your head aligned with your back for better posture")

\* generateRecommendations(jointAngles, overallSymmetry, asymmetryScore);
\* overallSymmetry is the unrounded average, passed here as the sum of the
\* two scores (twice the average)
generateRecommendations(jointAngles, symmetrySum, asymmetryScore) ==
    LET rec(cond, text) == IF cond THEN <<text>> ELSE <<>>
        recommendations ==
            rec(LessThan(symmetrySum, 2 * 75 * Scale),
                "Focus on improving overall symmetry between left and right sides")
            \o rec(LessThan(Get(jointAngles.knee, "symmetry"), 75 * Scale),
                "Work on balancing knee angles between both legs")
            \o rec(LessThan(Get(jointAngles.elbow, "symmetry"), 75 * Scale),
                "Maintain balanced arm swing for better symmetry")
            \o rec(GreaterThan(MathAbs(Get(jointAngles.backToHead, "angle")), 10 * Scale),
                "Keep your head aligned with your back for better posture")
    IN  IF recommendations = <<>>
        THEN <<"Great job maintaining good form! Keep up the excellent work.">>
        ELSE recommendations

\* generateRecommendations(jointAngles, overallSymmetry) of the later
\* version of the Dashboard: no condition on the head angle
generateRecommendationsLater(jointAngles, symmetrySum) ==
    LET rec(cond, text) == IF cond THEN <<text>> ELSE <<>>
        recommendations ==
            rec(LessThan(symmetrySum, 2 * 75 * Scale),
                "Focus on improving overall symmetry between left and right sides")
            \o rec(LessThan(Get(jointAngles.knee, "symmetry"), 75 * Scale),
                "Work on balancing knee angles between both legs")
            \o rec(LessThan(Get(jointAngles.elbow, "symmetry"), 75 * Scale),
                "Maintain balanced arm swing for better symmetry")
    IN  IF recommendations = <<>>
        THEN <<"Great job maintaining good form! Keep up the excellent work.">>
        ELSE recommendations

\* Math.round(overallSymmetry) of the average of two scores, a whole number
RoundedAverage(symmetrySum) ==
    IF symmetrySum = NaN THEN NaN
    ELSE Num(MathRound(symmetrySum.value, 2 * Scale))

\* `${Math.floor(totalFrames / 30 / 60)}:${String(Math.floor((totalFrames
\* / 30) % 60)).padStart(2, '0')}` when totalFrames is truthy, else 'N/A'
EstimatedDuration(totalFrames) ==
    IF Truthy(totalFrames)
    THEN [kind |-> "string",
          minutes |-> MathFloor(totalFrames.value, 30 * 60),
          seconds |-> MathFloor(totalFrames.value, 30) % 60]
    ELSE NotAvailable

\* the objects both conversions and the render read properties of
JointNames == {"knee", "elbow", "frontKnee", "backKnee", "backToHead"}

\* the joints whose properties a function reads without ?. : reading a
\* property of undefined or null throws a TypeError
MissingJoint(jointAngles, joints) ==
    \E joint \in joints : Nullish(Get(jointAngles, joint))

\* jointAngles with every joint of JointNames present as a property
WithAllJoints(jointAngles) ==
    [joint \in JointNames |-> Get(jointAngles, joint)]

\* function convertSessionAveragesToDashboardFormat(avgData)
convertSessionAveragesToDashboardFormat(avgData) ==
    LET jointAngles == Get(avgData, "jointAngles")
    IN  IF Nullish(jointAngles) \/ MissingJoint(jointAngles, JointNames)
        THEN Throw("TypeError")
        ELSE LET knee == jointAngles.knee
                 elbow == jointAngles.elbow
                 symmetrySum == Plus(Get(knee, "symmetry"), Get(elbow, "symmetry"))
                 kneeDiff == MathAbs(Minus(Get(knee, "left"), Get(knee, "right")))
                 elbowDiff == MathAbs(Minus(Get(elbow, "left"), Get(elbow, "right")))
                 kneeSymmetry == Or(Get(knee, "symmetry"), Num(95 * Scale))
             IN  [overallSymmetry |-> RoundedAverage(symmetrySum),
                  asymmetrySum |-> Plus(kneeDiff, elbowDiff),
                  runDuration |-> EstimatedDuration(Get(avgData, "totalFrames")),
                  jointAngles |-> jointAngles,
                  formAnalysis |->
                      [forwardLean |-> MathAbs(Get(jointAngles.backToHead, "angle")),
                       frontKnee |-> Get(jointAngles.frontKnee, "angle"),
                       backKnee |-> Get(jointAngles.backKnee, "angle"),
                       kneeSymmetry |-> kneeSymmetry,
                       leftAngle |-> Get(elbow, "left"),
                       rightAngle |-> Get(elbow, "right"),
                       armsSymmetry |-> Get(elbow, "symmetry")],
                  recommendations |->
                      generateRecommendations(jointAngles, symmetrySum, Plus(kneeDiff, elbowDiff))]

\* a?.b
OptGet(object, key) == IF Nullish(object) THEN Undefined ELSE Get(object, key)

\* function convertRealTimeDataToDashboardFormat(rtData)
convertRealTimeDataToDashboardFormat(rtData) ==
    LET jointAngles == Or(Get(rtData, "jointAngles"), WithAllJoints(rtData))
        knee == Get(jointAngles, "knee")
        elbow == Get(jointAngles, "elbow")
        symmetrySum ==
            IF Truthy(OptGet(knee, "symmetry")) /\ Truthy(OptGet(elbow, "symmetry"))
            THEN Plus(knee.symmetry, elbow.symmetry) ELSE Num(0)
        kneeDiff ==
            IF Truthy(OptGet(knee, "left")) /\ Truthy(OptGet(knee, "right"))
            THEN MathAbs(Minus(knee.left, knee.right)) ELSE Num(0)
        elbowDiff ==
            IF Truthy(OptGet(elbow, "left")) /\ Truthy(OptGet(elbow, "right"))
            THEN MathAbs(Minus(elbow.left, elbow.right)) ELSE Num(0)
        kneeSymmetry == Or(OptGet(knee, "symmetry"), Num(0))
    IN  IF MissingJoint(jointAngles, {"knee", "elbow", "backToHead"})
        THEN Throw("TypeError")   \* in generateRecommendations
        ELSE     [overallSymmetry |-> RoundedAverage(symmetrySum),
                  asymmetrySum |-> Plus(kneeDiff, elbowDiff),
                  runDuration |-> NotAvailable,
                  jointAngles |-> jointAngles,
                  formAnalysis |->
                      [forwardLean |->
                           MathAbs(Or(Get(jointAngles.backToHead, "angle"), Num(0))),
                       frontKnee |->
                           Or(OptGet(Get(jointAngles, "frontKnee"), "angle"), Num(0)),
                       backKnee |->
                           Or(OptGet(Get(jointAngles, "backKnee"), "angle"), Num(0)),
                       kneeSymmetry |-> kneeSymmetry,
                       leftAngle |-> Or(Get(elbow, "left"), Num(0)),
                       rightAngle |-> Or(Get(elbow, "right"), Num(0)),
                       armsSymmetry |-> Or(Get(elbow, "symmetry"), Num(0))],
                  recommendations |->
                      generateRecommendations(jointAngles, symmetrySum, Plus(kneeDiff, elbowDiff))]

\* the values the Dashboard markup calls .toFixed(1) on (jointAngles.knee.left
\* and right, elbow.left and right, backToHead.angle and spineCurvature,
\* frontKnee.angle, backKnee.angle): a TypeError when one is null or undefined
FixedValues(jointAngles) ==
    {OptGet(Get(jointAngles, path[1]), path[2]) :
        path \in {<<"knee", "left">>, <<"knee", "right">>,
                  <<"elbow", "left">>, <<"elbow", "right">>,
                  <<"backToHead", "angle">>, <<"backToHead", "spineCurvature">>,
                  <<"frontKnee", "angle">>, <<"backKnee", "angle">>}}

\* the branch Dashboard takes: if (sessionAverages) ... else if
\* (realTimeData) ... else the 'No data available' message
MetricsSource(rtData, avgData) ==
    IF Truthy(avgData) THEN "sessionAverages"
    ELSE IF Truthy(rtData) THEN "realTimeData"
    ELSE "none"

\* what a render of Dashboard ends in: the message, an exception, or the
\* overview; converted records the conversion calls made, in order
RenderDashboard(source, conversion, displayData) ==
    IF "threw" \in DOMAIN displayData
    THEN [view |-> "error", error |-> displayData.threw, source |-> source,
          converted |-> <<conversion>>]
    ELSE IF \E value \in FixedValues(displayData.jointAngles) : Nullish(value)
    THEN [view |-> "error", error |-> "TypeError", source |-> source,
          converted |-> <<conversion>>]
    ELSE [view |-> "overview", source |-> source, converted |-> <<conversion>>,
          overallSymmetry |-> displayData.overallSymmetry,
          asymmetrySum |-> displayData.asymmetrySum,
          runDuration |-> Or(displayData.runDuration, NotAvailable),
          jointAngles |-> displayData.jointAngles,
          formAnalysis |-> displayData.formAnalysis,
          recommendations |-> displayData.recommendations]

NoDataAvailable ==
    [view |-> "message",
     text |-> "No data available. Start a live session to see metrics.",
     source |-> "none", converted |-> <<>>]

\* the version that falls back on the data prop, as FormAnalysis and
\* RealTimeFeedback do (realTimeData || data)
DashboardUsingData(data, rtData, avgData) ==
    IF Truthy(avgData)
    THEN RenderDashboard("sessionAverages", "convertSessionAveragesToDashboardFormat",
             convertSessionAveragesToDashboardFormat(avgData))
    ELSE IF Truthy(Or(rtData, data))
    THEN RenderDashboard("realTimeData", "convertRealTimeDataToDashboardFormat",
             convertRealTimeDataToDashboardFormat(Or(rtData, data)))
    ELSE NoDataAvailable

\* function Dashboard({ data, realTimeData, sessionAverages }), the props
\* named here as the conversions name them
Dashboard(data, rtData, avgData) ==
    IF MetricsSource(rtData, avgData) = "sessionAverages"
    THEN RenderDashboard("sessionAverages", "convertSessionAveragesToDashboardFormat",
             convertSessionAveragesToDashboardFormat(avgData))
    ELSE IF MetricsSource(rtData, avgData) = "realTimeData"
    THEN RenderDashboard("realTimeData", "convertRealTimeDataToDashboardFormat",
             convertRealTimeDataToDashboardFormat(rtData))
    ELSE NoDataAvailable

-----------------------------------------------------------------------------
(* utils/feedbackConfig.js: getAsymmetryFeedback, and the session feedback
   of RealTimeFeedback.jsx built on it. *)

\* without the branch for symmetry percentages: every metric, kneeSymmetry
\* included, is read as a difference (lower is better)
getAsymmetryFeedbackLowerIsBetter(metricType, value, config) ==
    LET metricConfig == Lookup(config, metricType)
        asymmetryConfig ==
            IF metricConfig \notin {Undefined, InheritedFunction}
                  /\ "asymmetry" \in DOMAIN metricConfig
            THEN metricConfig.asymmetry ELSE metricConfig
        missing(threshold) ==
            asymmetryConfig = InheritedFunction
               \/ threshold \notin DOMAIN asymmetryConfig
        band(threshold) ==
            IF missing(threshold) THEN Throw("TypeError")
            ELSE [type |-> threshold, threshold |-> threshold,
                  message |-> asymmetryConfig[threshold].message, value |-> value]
        within(threshold) ==
            /\ "max" \in DOMAIN asymmetryConfig[threshold]
            /\ value <= asymmetryConfig[threshold].max
    IN  IF asymmetryConfig = Undefined
        THEN [type |-> "info", message |-> "No asymmetry feedback for " \o metricType]
        ELSE IF missing("excellent") THEN Throw("TypeError")
        ELSE IF within("excellent") THEN band("excellent")
        ELSE IF missing("good") THEN Throw("TypeError")
        ELSE IF within("good") THEN band("good")
        ELSE IF missing("needsImprovement") THEN Throw("TypeError")
        ELSE IF within("needsImprovement") THEN band("needsImprovement")
        ELSE band("bad")

\* export function getAsymmetryFeedback(metricType, value, config)
getAsymmetryFeedback(metricType, value, config) ==
    LET metricConfig == Lookup(config, metricType)
        asymmetryConfig ==
            IF metricConfig \notin {Undefined, InheritedFunction}
                  /\ "asymmetry" \in DOMAIN metricConfig
            THEN metricConfig.asymmetry ELSE metricConfig
        \* asymmetryConfig[threshold].message: a TypeError without the band
        band(threshold) ==
            IF asymmetryConfig = InheritedFunction
                  \/ threshold \notin DOMAIN asymmetryConfig
            THEN Throw("TypeError")
            ELSE [type |-> threshold, threshold |-> threshold,
                  message |-> asymmetryConfig[threshold].message, value |-> value]
        \* value <= diffConfig[threshold].max
        within(threshold) ==
            /\ "max" \in DOMAIN asymmetryConfig[threshold]
            /\ value <= asymmetryConfig[threshold].max
        missing(threshold) ==
            asymmetryConfig = InheritedFunction
               \/ threshold \notin DOMAIN asymmetryConfig
    IN  IF asymmetryConfig = Undefined
        THEN [type |-> "info", message |-> "No asymmetry feedback for " \o metricType]
        ELSE IF metricType = "kneeSymmetry"
        THEN IF value >= 90 * Scale THEN band("excellent")
             ELSE IF value >= 75 * Scale THEN band("good")
             ELSE IF value >= 50 * Scale THEN band("needsImprovement")
             ELSE band("bad")
        ELSE IF missing("excellent") THEN Throw("TypeError")
        ELSE IF within("excellent") THEN band("excellent")
        ELSE IF missing("good") THEN Throw("TypeError")
        ELSE IF within("good") THEN band("good")
        ELSE IF missing("needsImprovement") THEN Throw("TypeError")
        ELSE IF within("needsImprovement") THEN band("needsImprovement")
        ELSE band("bad")

(* The numbers of a summary are decimals held as doubles, so a sum or a     *)
(* difference of two of them is the double nearest to the sum or difference *)
(* of two doubles, which need not be the double of the decimal result. The  *)
(* rounding is followed where it decides a comparison: at a whole number,   *)
(* which every limit of feedbackConfig is.                                  *)

\* 2^k mod m
RECURSIVE PowerOfTwoMod(_, _)
PowerOfTwoMod(k, m) == IF k = 0 THEN 1 % m ELSE (2 * PowerOfTwoMod(k - 1, m)) % m

\* the binade of n / Scale for n > 0, counted from 1/16: the c with
\* 2^(c - 4) <= n / Scale < 2^(c - 3); its doubles are 2^(c - 56) apart
Binade(n) ==
    CHOOSE c \in 0 .. 20 : Scale * 2^c <= 16 * n /\ 16 * n < Scale * 2^(c + 1)

\* the double of n / Scale minus n / Scale, in units of 2^-56 / Scale: the
\* remainder of n * 2^(56 - c) by Scale, rounded to the nearest
RoundingError(n) ==
    IF n = 0 THEN 0
    ELSE LET c == Binade(Abs(n))
             r == ((Abs(n) % Scale) * PowerOfTwoMod(56 - c, Scale)) % Scale
             error == (IF 2 * r < Scale THEN 0 - r ELSE Scale - r) * 2^c
         IN  IF n < 0 THEN 0 - error ELSE error

\* where the double result of an operation lies when its decimal result is
\* exact / Scale and its operands carry the rounding error given: 1 above,
\* -1 below, 0 on it. Below a power of two the doubles are twice as close.
Rounding(exact, error) ==
    IF exact % Scale # 0 \/ exact = 0 THEN 0
    ELSE LET size == Abs(exact)
             signed == IF exact < 0 THEN 0 - error ELSE error
             half == Scale * 2^Binade(size)
             powerOfTwo == 16 * size = half
             up == 2 * signed > half
             down == IF powerOfTwo THEN 4 * signed < 0 - half
                                   ELSE 2 * signed < 0 - half
         IN  IF exact < 0
             THEN (IF up THEN -1 ELSE IF down THEN 1 ELSE 0)
             ELSE (IF up THEN 1 ELSE IF down THEN -1 ELSE 0)

\* a number next to the value of the grid it was rounded away from
Rounded(exact, error) ==
    IF Rounding(exact, error) = 0 THEN Num(exact)
    ELSE [kind |-> "number", value |-> exact, rounding |-> Rounding(exact, error)]

\* Math.abs(left - right) of two numbers of a summary
AbsoluteDifference(left, right) ==
    IF Minus(left, right) = NaN THEN NaN
    ELSE LET l == ToNumber(left).value
             r == ToNumber(right).value
         IN  IF l >= r
             THEN Rounded(l - r, RoundingError(l) - RoundingError(r))
             ELSE Rounded(r - l, RoundingError(r) - RoundingError(l))

\* (left + right) / 2 of two numbers of a summary: halving a double is
\* exact; an odd sum is a number halfway between two values of the grid
Average(left, right) ==
    IF Plus(left, right) = NaN THEN NaN
    ELSE LET l == ToNumber(left).value
             r == ToNumber(right).value
             rounding == Rounding(l + r, RoundingError(l) + RoundingError(r))
         IN  IF (l + r) % 2 # 0 THEN [kind |-> "number", halves |-> l + r]
             ELSE IF rounding = 0 THEN Num((l + r) \div 2)
             ELSE [kind |-> "number", value |-> (l + r) \div 2, rounding |-> rounding]

\* a number that is not a value of the grid, and the place of a number
\* among the values of the grid, in halves of a unit
OffGrid(x) == "halves" \in DOMAIN x \/ "rounding" \in DOMAIN x
InHalvesOf(x) ==
    IF "halves" \in DOMAIN x THEN x.halves
    ELSE IF "rounding" \in DOMAIN x THEN 2 * x.value + x.rounding
    ELSE 2 * ToNumber(x).value

\* the bands of a metric, and of its asymmetry block, with their limits in
\* halves of a unit
RECURSIVE InHalves(_)
InHalves(metricConfig) ==
    [key \in DOMAIN metricConfig |->
        IF key = "asymmetry" THEN InHalves(metricConfig[key])
        ELSE [field \in DOMAIN metricConfig[key] |->
                 IF field \in {"min", "max"}
                 THEN 2 * metricConfig[key][field] ELSE metricConfig[key][field]]]

\* getFeedbackForMetric(metricType, x) for a number x of a view: NaN fails
\* both comparisons of checkRange for every band, which leaves the final
\* return; a number that is not a value of the grid is compared in halves
\* of a unit; the value property is the argument as it was passed
getFeedbackForMetricOf(metricType, x) ==
    LET feedback ==
            IF OffGrid(x) /\ metricType \in DOMAIN feedbackConfig
            THEN getFeedbackForMetric(metricType, InHalvesOf(x),
                     [feedbackConfig EXCEPT ![metricType] = InHalves(@)])
            ELSE getFeedbackForMetric(metricType, ToNumber(x).value, feedbackConfig)
    IN  IF "value" \notin DOMAIN feedback THEN feedback
        ELSE IF ToNumber(x) = NaN
        THEN [type |-> "needsImprovement", threshold |-> "needsImprovement",
              message |-> "No specific feedback available", value |-> x]
        ELSE [feedback EXCEPT !.value = x]

\* getAsymmetryFeedback(metricType, x) for a number x of a view: NaN fails
\* every >= of the kneeSymmetry branch and every <= of the difference
\* branch, as a value below or above every limit does; a difference that is
\* not a value of the grid is compared in halves of a unit
getAsymmetryFeedbackOf(metricType, x) ==
    LET beyond == IF metricType = "kneeSymmetry"
                  THEN 0 - ValueRange * Scale ELSE ValueRange * Scale
        feedback ==
            IF OffGrid(x) /\ metricType \in DOMAIN feedbackConfig
                  /\ metricType # "kneeSymmetry"
            THEN getAsymmetryFeedback(metricType, InHalvesOf(x),
                     [feedbackConfig EXCEPT ![metricType] = InHalves(@)])
            ELSE getAsymmetryFeedback(metricType,
                     IF ToNumber(x) = NaN THEN beyond ELSE ToNumber(x).value,
                     feedbackConfig)
    IN  IF "value" \notin DOMAIN feedback THEN feedback
        ELSE [feedback EXCEPT !.value = x]

\* const getSessionBasedFeedback = () => { ... }: the feedback items of a
\* session summary, or the TypeError of a .toFixed(1) on null or undefined.
\* An item is { metric, value: text, ..., ...feedback }: the properties of
\* the feedback object are spread last and replace those written before
\* them, so the value of an item is the number handed to the classifier
getSessionBasedFeedback(avgData) ==
    IF ~Truthy(avgData) \/ ~Truthy(Get(avgData, "jointAngles"))
    THEN <<>>
    ELSE
    LET ja == avgData.jointAngles
        joint(name) == Get(ja, name)
        has(name, key) ==
            Truthy(joint(name)) /\ Get(joint(name), key) # Undefined
        fixed(name, keys) == {Get(joint(name), key) : key \in keys}
        frontKnee ==
            IF has("frontKnee", "angle")
            THEN <<getFeedbackForMetricOf("frontKnee", joint("frontKnee").angle)
                   @@ [metric |-> "Front Knee",
                       value |-> toFixed1(joint("frontKnee").angle),
                       range |-> <<toFixed1(joint("frontKnee").min),
                                   toFixed1(joint("frontKnee").max)>>]>>
            ELSE <<>>
        backKnee ==
            IF has("backKnee", "angle")
            THEN <<getFeedbackForMetricOf("backKnee", joint("backKnee").angle)
                   @@ [metric |-> "Back Knee",
                       value |-> toFixed1(joint("backKnee").angle),
                       range |-> <<toFixed1(joint("backKnee").min),
                                   toFixed1(joint("backKnee").max)>>]>>
            ELSE <<>>
        elbow ==
            IF Truthy(joint("elbow"))
            THEN LET left == joint("elbow").left
                     right == joint("elbow").right
                     avgElbow == Average(left, right)
                 IN  <<[symmetryFeedback |->
                            getAsymmetryFeedbackOf("elbow", AbsoluteDifference(left, right))]
                       @@ getFeedbackForMetricOf("elbow", avgElbow)
                       @@ [metric |-> "Elbow Angles",
                           value |-> [left |-> toFixed1(left), right |-> toFixed1(right)],
                           symmetry |-> toFixed1(joint("elbow").symmetry)]>>
            ELSE <<>>
        backToHead ==
            IF has("backToHead", "angle")
            THEN <<getFeedbackForMetricOf("backToHead", joint("backToHead").angle)
                   @@ [metric |-> "Posture (Back to Head)",
                       value |-> toFixed1(joint("backToHead").angle)]>>
            ELSE <<>>
        knee ==
            IF has("knee", "symmetry")
            THEN <<getAsymmetryFeedbackOf("kneeSymmetry", joint("knee").symmetry)
                   @@ [metric |-> "Knee Symmetry",
                       value |-> toFixed1(joint("knee").symmetry)]>>
            ELSE <<>>
        \* the numbers formatted with .toFixed(1), none behind ?.
        formatted ==
            (IF has("frontKnee", "angle")
                THEN fixed("frontKnee", {"angle", "min", "max"}) ELSE {})
            \cup (IF has("backKnee", "angle")
                THEN fixed("backKnee", {"angle", "min", "max"}) ELSE {})
            \cup (IF Truthy(joint("elbow"))
                THEN fixed("elbow", {"left", "right", "symmetry"}) ELSE {})
            \cup (IF has("backToHead", "angle")
                THEN fixed("backToHead", {"angle"}) ELSE {})
            \cup (IF has("knee", "symmetry")
                THEN fixed("knee", {"symmetry"}) ELSE {})
    IN  IF \E value \in formatted : Nullish(value)
        THEN Throw("TypeError")
        ELSE frontKnee \o backKnee \o elbow \o backToHead \o knee

\* the markup of FormAnalysis: the parts of formAnalysis it reads properties
\* of, and the numbers it calls .toFixed(1) on; a missing part or number is
\* a TypeError
FormAnalysisMarkup(formAnalysis) ==
    LET part(name) == Get(formAnalysis, name)
        knees == part("kneeAnglesAtLanding")
        parts == {part("backPosition"), knees, OptGet(knees, "frontKnee"),
                  OptGet(knees, "backKnee"), part("armsPosition"),
                  part("headPosition")}
    IN  IF \E object \in parts : Nullish(object)
        THEN [view |-> "error", error |-> "TypeError"]
        ELSE
        LET fixed == [forwardLean |-> Get(part("backPosition"), "forwardLean"),
                      frontKneeLeft |-> Get(knees.frontKnee, "left"),
                      frontKneeRight |-> Get(knees.frontKnee, "right"),
                      backKneeLeft |-> Get(knees.backKnee, "left"),
                      backKneeRight |-> Get(knees.backKnee, "right"),
                      leftAngle |-> Get(part("armsPosition"), "leftAngle"),
                      rightAngle |-> Get(part("armsPosition"), "rightAngle"),
                      tilt |-> Get(part("headPosition"), "tilt")]
        IN  IF \E key \in DOMAIN fixed : Nullish(fixed[key])
            THEN [view |-> "error", error |-> "TypeError"]
            ELSE [view |-> "formAnalysis",
                  formAnalysis |-> formAnalysis,
                  text |-> [key \in DOMAIN fixed |-> toFixed1(fixed[key])]]

\* function FormAnalysis({ data, realTimeData, sessionAverages }): the file
\* neither defines nor imports convertSessionAveragesToFormAnalysis, so the
\* call made for a truthy sessionAverages is a ReferenceError
FormAnalysis(data, rtData, avgData) ==
    IF Truthy(avgData)
    THEN [view |-> "error", error |-> "ReferenceError"]
    ELSE IF ~Truthy(Or(rtData, data))
    THEN [view |-> "message",
          text |-> "No data available. Start a live session to see form analysis."]
    ELSE IF ~Truthy(Get(Or(rtData, data), "formAnalysis"))
    THEN [view |-> "message",
          text |-> "No form analysis data available. Start a live session to see metrics."]
    ELSE FormAnalysisMarkup(Get(Or(rtData, data), "formAnalysis"))

\* with symmetry <= 75 in place of symmetry < 75
getActionableFeedbackAtThreshold(currentData) ==
    IF ~Truthy(currentData) \/ ~Truthy(Get(currentData, "jointAngles"))
    THEN <<>>
    ELSE
    LET jointAngles == currentData.jointAngles
        knee == Get(jointAngles, "knee")
        elbow == Get(jointAngles, "elbow")
        diff(joint) ==
            IF Get(joint, "left") # Undefined /\ Get(joint, "right") # Undefined
            THEN MathAbs(Minus(joint.left, joint.right))
            ELSE Num(0)
        kneeItem ==
            IF OptGet(knee, "symmetry") # Undefined /\ LessThan(knee.symmetry, 75 * Scale + 1)
               /\ Get(knee, "left") # Undefined /\ Get(knee, "right") # Undefined
            THEN IF GreaterThan(Minus(knee.left, knee.right), 0)
                 THEN <<[type |-> "action", priority |-> "high",
                         message |-> <<"Reduce left knee angle by ",
                                       toFixed1(diff(knee)),
                                       "° - focus on right leg form">>]>>
                 ELSE <<[type |-> "action", priority |-> "high",
                         message |-> <<"Reduce right knee angle by ",
                                       toFixed1(diff(knee)),
                                       "° - focus on left leg form">>]>>
            ELSE <<>>
        elbowItem ==
            IF OptGet(elbow, "symmetry") # Undefined /\ LessThan(elbow.symmetry, 75 * Scale + 1)
            THEN <<[type |-> "action", priority |-> "medium",
                    message |-> <<"Balance arm swing - reduce elbow angle difference by ",
                                  toFixed1(diff(elbow)), "°">>]>>
            ELSE <<>>
    IN  kneeItem \o elbowItem

\* const getActionableFeedback = () => ... of RealTimeFeedback, on
\* currentData = realTimeData || data
getActionableFeedback(currentData) ==
    IF ~Truthy(currentData) \/ ~Truthy(Get(currentData, "jointAngles"))
    THEN <<>>
    ELSE
    LET jointAngles == currentData.jointAngles
        knee == Get(jointAngles, "knee")
        elbow == Get(jointAngles, "elbow")
        diff(joint) ==
            IF Get(joint, "left") # Undefined /\ Get(joint, "right") # Undefined
            THEN MathAbs(Minus(joint.left, joint.right))
            ELSE Num(0)
        kneeItem ==
            IF OptGet(knee, "symmetry") # Undefined /\ LessThan(knee.symmetry, 75 * Scale)
               /\ Get(knee, "left") # Undefined /\ Get(knee, "right") # Undefined
            THEN IF GreaterThan(Minus(knee.left, knee.right), 0)
                 THEN <<[type |-> "action", priority |-> "high",
                         message |-> <<"Reduce left knee angle by ",
                                       toFixed1(diff(knee)),
                                       "° - focus on right leg form">>]>>
                 ELSE <<[type |-> "action", priority |-> "high",
                         message |-> <<"Reduce right knee angle by ",
                                       toFixed1(diff(knee)),
                                       "° - focus on left leg form">>]>>
            ELSE <<>>
        elbowItem ==
            IF OptGet(elbow, "symmetry") # Undefined /\ LessThan(elbow.symmetry, 75 * Scale)
            THEN <<[type |-> "action", priority |-> "medium",
                    message |-> <<"Balance arm swing - reduce elbow angle difference by ",
                                  toFixed1(diff(elbow)), "°">>]>>
            ELSE <<>>
    IN  kneeItem \o elbowItem

\* function RealTimeFeedback({ data, realTimeData, isActive, sessionAverages }):
\* the lists it computes on every render, the asymmetry score of the current
\* metrics and the two feedback sections of its markup
RealTimeFeedback(data, rtData, avgData) ==
    LET currentData == Or(rtData, data)
        displayData == Or(avgData, currentData)
        isShowingAverages == Truthy(avgData)
        hasData ==
            /\ Truthy(displayData)
            /\ \/ Truthy(Get(displayData, "jointAngles"))
               \/ Truthy(Get(displayData, "frontKnee"))
               \/ Truthy(Get(displayData, "knee"))
        sessionFeedback == getSessionBasedFeedback(avgData)
        actionableFeedback == getActionableFeedback(currentData)
    IN  IF sessionFeedback = Throw("TypeError")
        THEN [view |-> "error", error |-> "TypeError"]
        \* currentData?.asymmetryScore !== undefined ?
        \*     `${currentData.asymmetryScore.toFixed(1)}%` : 'N/A'
        ELSE IF hasData /\ OptGet(currentData, "asymmetryScore") = Null
        THEN [view |-> "error", error |-> "TypeError"]
        ELSE [view |-> "feedback",
              isShowingAverages |-> isShowingAverages,
              actionableFeedback |-> actionableFeedback,
              sections |->
                  (IF isShowingAverages /\ Len(sessionFeedback) > 0
                   THEN {"session-feedback"} ELSE {})
                  \cup (IF ~isShowingAverages /\ Len(actionableFeedback) > 0
                        THEN {"actionable-feedback"} ELSE {})]

-----------------------------------------------------------------------------
(* The views as pure functions of their props: one render per behaviour. *)

\* a whole number of degrees or percent
Whole(n) == Num(n * Scale)

\* jointAngles as the backend sends them (spec of the summary and of the
\* live sample): knee and elbow symmetry, the elbow sides and the head angle
\* vary. The elbow sides are whole degrees of an even sum, so that their
\* average is a value of the 1/Scale grid.
SymmetryScores == {0, 74, 75, 100}
ElbowSides == {<<80, 80>>, <<70, 96>>}
HeadAngles == {-12, 12}

JointAngles(kneeSymmetry, elbowSymmetry, sides, head) ==
    [frontKnee |-> [angle |-> Whole(150), min |-> Whole(140), max |-> Whole(160)],
     backKnee |-> [angle |-> Whole(110), min |-> Whole(100), max |-> Whole(120)],
     elbow |-> [left |-> Whole(sides[1]), right |-> Whole(sides[2]),
                symmetry |-> Whole(elbowSymmetry)],
     knee |-> [left |-> Whole(160), right |-> Whole(150),
               symmetry |-> Whole(kneeSymmetry)],
     backToHead |-> [angle |-> Whole(head), spineCurvature |-> Whole(3)]]

MeasuredJointAngles ==
    {JointAngles(k, e, sides, head) :
        k \in SymmetryScores, e \in SymmetryScores,
        sides \in ElbowSides, head \in HeadAngles}

\* the averages of a session that processed no frame: the jointAngles
\* property missing, null or empty, or every average in it null
NoAverage == [key \in {"angle", "min", "max", "left", "right", "symmetry",
                       "spineCurvature"} |-> Null]
AbsentJointAngles ==
    {Undefined, Null, [empty |-> TRUE], [joint \in JointNames |-> NoAverage]}

SessionSummary(totalFrames, jointAngles) ==
    IF jointAngles = Undefined
    THEN [totalFrames |-> Num(totalFrames), sessionEndTime |-> Num(1)]
    ELSE [totalFrames |-> Num(totalFrames), sessionEndTime |-> Num(1),
          jointAngles |-> jointAngles]

\* Scenario E: no frame processed, the averages absent
EmptySummaries == {SessionSummary(0, absent) : absent \in AbsentJointAngles}

\* frame counts of the summaries of the model: under a second, under and
\* over a minute at 30 frames per second
FrameCounts == {20, 1799, 5400}

Summaries ==
    EmptySummaries
    \cup {SessionSummary(n, ja) : n \in FrameCounts, ja \in MeasuredJointAngles}

\* live samples: the joints at the top level of the message, one sample
\* without elbow data
LiveSamples ==
    MeasuredJointAngles
    \cup {[frontKnee |-> [angle |-> Whole(150)], knee |-> [symmetry |-> Whole(90)]]}

\* n tenths, on the grid of the model
Tenths(n) == Num((n * Scale) \div 10)

\* the data prop: null in App, in the older versions one result of
\* getMockData(): the averages of 300 samples around 160 and 145 degrees
\* for the knees, 90 for the elbows, 0 for the head, the random parts of
\* formAnalysis inside their ranges, every symmetry the calculateSymmetry
\* of its two sides. timeSeriesData, which no view of the model reads, is
\* left out.
MockRun ==
    LET frontKnee == Tenths(1604)
        backKnee == Tenths(1448)
        elbowLeft == Tenths(901)
        elbowRight == Tenths(899)
        knee == [left |-> frontKnee, right |-> backKnee,
                 symmetry |-> Whole(90)]
        elbow == [left |-> elbowLeft, right |-> elbowRight,
                  symmetry |-> Whole(100)]
    IN  [overallSymmetry |->
             Whole(MathRound(knee.symmetry.value + elbow.symmetry.value, 2 * Scale)),
         asymmetryScore |->
             Num((Abs(frontKnee.value - backKnee.value)
                  + Abs(elbowLeft.value - elbowRight.value)) \div 2),
         jointAngles |->
             [frontKnee |-> [angle |-> frontKnee,
                             min |-> Minus(frontKnee, Whole(5)),
                             max |-> Plus(frontKnee, Whole(5)), side |-> "left"],
              backKnee |-> [angle |-> backKnee,
                            min |-> Minus(backKnee, Whole(5)),
                            max |-> Plus(backKnee, Whole(5)), side |-> "right"],
              backToHead |-> [angle |-> Whole(0), spineCurvature |-> Whole(10)],
              elbow |-> elbow,
              knee |-> knee],
         strideSymmetry |-> Whole(90),
         runDuration |-> "25:30",
         totalSteps |-> Whole(3420),
         formAnalysis |->
             [backPosition |->
                  [forwardLean |-> Tenths(65), symmetry |-> Whole(87),
                   status |-> "Good",
                   recommendation |->
                       "Maintain slight forward lean (5-8°) for optimal running efficiency"],
              kneeAnglesAtLanding |->
                  [frontKnee |-> [left |-> Whole(162), right |-> Whole(158),
                                  symmetry |-> Whole(98)],
                   backKnee |-> [left |-> Whole(31), right |-> Whole(29),
                                 symmetry |-> Whole(93)]],
              armsPosition |->
                  [leftAngle |-> Whole(86), rightAngle |-> Whole(84),
                   symmetry |-> Whole(98),
                   swingSymmetry |-> Whole(88),
                   recommendation |->
                       "Keep arms at 85-90° angle, avoid crossing midline"],
              headPosition |->
                  [tilt |-> Tenths(-5), forwardPosition |-> Whole(3),
                   symmetry |-> Whole(90),
                   recommendation |->
                       "Keep head neutral, eyes looking 10-20m ahead"]],
         recommendations |->
             <<"Focus on maintaining equal knee flexion between both legs during the stance phase",
               "Work on hip alignment - ensure both hips remain level throughout the running cycle",
               "Practice single-leg balance exercises to improve muscle symmetry",
               "Consider incorporating strength training for your weaker side">>,
         insights |->
             <<[type |-> "warning", title |-> "Knee Angle Asymmetry Detected",
                description |-> "Your left knee shows 3.2° more flexion than your right knee. This may lead to overuse injuries on the left side."],
               [type |-> "success", title |-> "Hip Alignment is Good",
                description |-> "Your hip angles are well-balanced, indicating good core stability during your run."]>>]

\* the knee and elbow readings of the samples RealTimeFeedback is rendered
\* with: either side larger, equal sides, a side or the symmetry missing
KneeSides == {<<160, 150>>, <<150, 160>>, <<155, 155>>}
KneeReadings ==
    {[left |-> Whole(sides[1]), right |-> Whole(sides[2]), symmetry |-> Whole(s)] :
        sides \in KneeSides, s \in SymmetryScores}
    \cup {[left |-> Whole(160), symmetry |-> Whole(50)],
          [left |-> Whole(160), right |-> Whole(150)]}
ElbowReadings ==
    {[left |-> Whole(sides[1]), right |-> Whole(sides[2]), symmetry |-> Whole(s)] :
        sides \in ElbowSides, s \in SymmetryScores}
    \cup {[symmetry |-> Whole(50)]}
FeedbackJointAngles ==
    {[knee |-> k, elbow |-> e] : k \in KneeReadings, e \in ElbowReadings}
    \cup {[knee |-> k] : k \in KneeReadings}

\* the two shapes of a live sample: the joints under jointAngles
\* (simulateRealTimeData, the websocket App) and the joints at the top level
\* of the message (the polling App)
FeedbackSamples ==
    {[jointAngles |-> ja] : ja \in FeedbackJointAngles} \cup FeedbackJointAngles
    \cup {[jointAngles |-> JointAngles(74, 74, <<70, 96>>, -12),
           asymmetryScore |-> score] : score \in {Null, Whole(18)}}

\* summaries whose elbow sides sum to an odd number of tenths, or differ by
\* 5 where the difference of their doubles is above 5
InexactElbowSummaries ==
    {SessionSummary(1799,
         [JointAngles(90, 100, <<86, 86>>, -12) EXCEPT !.elbow.right = Tenths(861)]),
     SessionSummary(1799,
         [JointAngles(90, 100, <<86, 86>>, -12) EXCEPT !.elbow.left = Tenths(594),
                                                      !.elbow.right = Tenths(644)])}

FeedbackSummaries ==
    EmptySummaries
    \cup {SessionSummary(1799, JointAngles(k, e, <<80, 80>>, -12)) :
            k \in {74, 75}, e \in {74, 75}}

InitViews ==
    /\ call \in
          [fn : {"Dashboard", "FormAnalysis"}, data : {Null, MockRun},
           realTimeData : {Null} \cup LiveSamples,
           sessionAverages : {Null, Undefined} \cup Summaries]
          \cup [fn : {"getSessionBasedFeedback"},
                sessionAverages :
                    {Null, Undefined} \cup Summaries \cup InexactElbowSummaries]
          \cup [fn : {"RealTimeFeedback"}, data : {Null, MockRun},
                realTimeData : {Null} \cup FeedbackSamples,
                sessionAverages : {Null} \cup FeedbackSummaries]
    /\ ret = NoRet
    /\ AppInit

CallDashboard ==
    /\ call.fn = "Dashboard"
    /\ ret = NoRet
    /\ ret' = Dashboard(call.data, call.realTimeData, call.sessionAverages)
    /\ UNCHANGED <<call, appVars>>

CallFormAnalysis ==
    /\ call.fn = "FormAnalysis"
    /\ ret = NoRet
    /\ ret' = FormAnalysis(call.data, call.realTimeData, call.sessionAverages)
    /\ UNCHANGED <<call, appVars>>

CallGetSessionBasedFeedback ==
    /\ call.fn = "getSessionBasedFeedback"
    /\ ret = NoRet
    /\ ret' = [items |-> getSessionBasedFeedback(call.sessionAverages)]
    /\ UNCHANGED <<call, appVars>>

CallRealTimeFeedback ==
    /\ call.fn = "RealTimeFeedback"
    /\ ret = NoRet
    /\ ret' = RealTimeFeedback(call.data, call.realTimeData, call.sessionAverages)
    /\ UNCHANGED <<call, appVars>>

NextViews ==
    \/ CallDashboard
    \/ CallFormAnalysis
    \/ CallGetSessionBasedFeedback
    \/ CallRealTimeFeedback

SpecViews == InitViews /\ [][NextViews]_vars

Rendered(fn) == call.fn = fn /\ ret # NoRet

-----------------------------------------------------------------------------
(* Claims about the views, checked under SpecViews. *)

\* C16: Dashboard picks its data source by priority: sessionAverages when
\* non-null, converted by convertSessionAveragesToDashboardFormat, otherwise
\* realTimeData when non-null, converted by
\* convertRealTimeDataToDashboardFormat, otherwise the 'No data available'
\* message; exactly one conversion is applied per render that has a source,
\* and the result does not depend on the data prop.
C16_SourceByPriority ==
    Rendered("Dashboard") =>
        /\ IF ~Nullish(call.sessionAverages)
           THEN /\ ret.source = "sessionAverages"
                /\ ret.converted = <<"convertSessionAveragesToDashboardFormat">>
           ELSE IF ~Nullish(call.realTimeData)
           THEN /\ ret.source = "realTimeData"
                /\ ret.converted = <<"convertRealTimeDataToDashboardFormat">>
           ELSE /\ ret = NoDataAvailable
                /\ ret.converted = <<>>
        /\ \A data \in {Null, Undefined, MockRun} :
              ret = Dashboard(data, call.realTimeData, call.sessionAverages)

C16_Witness ==
    /\ Rendered("Dashboard")
    /\ call.data = MockRun
    /\ call.sessionAverages \in Summaries \ EmptySummaries
    /\ call.realTimeData \in LiveSamples
    /\ ret.view = "overview"
    /\ ret.source = "sessionAverages"
    /\ ret.jointAngles = call.sessionAverages.jointAngles
    /\ ret.jointAngles # call.realTimeData

\* C15 (as claimed): Scenario E: a session summary with totalFrames = 0 whose
\* averages are absent is displayed with N/A values and reaches no error
\* state (no exception, no NaN) in Dashboard, FormAnalysis or
\* RealTimeFeedback.
C15_ScenarioE ==
    (ret # NoRet /\ call.sessionAverages \in EmptySummaries) =>
        /\ call.fn = "Dashboard" =>
              /\ ret.view = "overview"
              /\ ret.runDuration = NotAvailable
              /\ ret.overallSymmetry # NaN
        /\ call.fn = "FormAnalysis" => ret.view # "error"
        /\ call.fn = "getSessionBasedFeedback" => ret.items # Throw("TypeError")

\* C27 (as claimed): FormAnalysis uses session averages if available: with
\* non-null sessionAverages it renders a form analysis derived from them
\* without reaching an error state; otherwise it uses realTimeData, then data,
\* and shows the 'No data available' message when all three are absent.
C27_FormAnalysisUsesAverages ==
    Rendered("FormAnalysis") =>
        IF ~Nullish(call.sessionAverages)
        THEN /\ ret.view # "error"
             /\ ret.view = "formAnalysis"
        ELSE IF ~Nullish(call.realTimeData)
        THEN ret = FormAnalysis(Null, call.realTimeData, Null)
        ELSE IF ~Nullish(call.data)
        THEN ret = FormAnalysis(call.data, Null, Null)
        ELSE ret = [view |-> "message",
                    text |-> "No data available. Start a live session to see form analysis."]

\* C28: live actionable feedback is produced exactly for joints below the
\* symmetry threshold: getActionableFeedback adds a high-priority knee item
\* iff knee.symmetry < 75 and both knee sides are defined (naming the left
\* knee when left > right, otherwise the right knee), adds a medium-priority
\* elbow item iff elbow.symmetry < 75, returns an empty list otherwise, and
\* the actionable section is never rendered while session averages are
\* shown.
C28_ActionableFeedback ==
    Rendered("RealTimeFeedback") =>
        LET currentData == Or(call.realTimeData, call.data)
            jointAngles == OptGet(currentData, "jointAngles")
            knee == IF Truthy(jointAngles) THEN Get(jointAngles, "knee") ELSE Undefined
            elbow == IF Truthy(jointAngles) THEN Get(jointAngles, "elbow") ELSE Undefined
            below(joint) ==
                /\ OptGet(joint, "symmetry") # Undefined
                /\ LessThan(joint.symmetry, 75 * Scale)
            kneeBelow ==
                /\ below(knee)
                /\ Get(knee, "left") # Undefined
                /\ Get(knee, "right") # Undefined
            items == getActionableFeedback(currentData)
            high == {i \in DOMAIN items : items[i].priority = "high"}
            medium == {i \in DOMAIN items : items[i].priority = "medium"}
        IN  /\ Cardinality(high) = (IF kneeBelow THEN 1 ELSE 0)
            /\ Cardinality(medium) = (IF below(elbow) THEN 1 ELSE 0)
            /\ Len(items) = Cardinality(high) + Cardinality(medium)
            /\ \A i \in high :
                  items[i].message[1] =
                      (IF GreaterThan(Minus(knee.left, knee.right), 0)
                       THEN "Reduce left knee angle by "
                       ELSE "Reduce right knee angle by ")
            /\ ret.view = "feedback" =>
                  /\ ret.actionableFeedback = items
                  /\ "actionable-feedback" \in ret.sections =>
                        /\ Nullish(call.sessionAverages)
                        /\ items # <<>>

\* a live render with both joints below the threshold and the left knee
\* the larger: two items, and the actionable section is shown
C28_Witness ==
    /\ Rendered("RealTimeFeedback")
    /\ ret.view = "feedback"
    /\ call.sessionAverages = Null
    /\ call.realTimeData # Null
    /\ "jointAngles" \in DOMAIN call.realTimeData
    /\ "elbow" \in DOMAIN call.realTimeData.jointAngles
    /\ call.realTimeData.jointAngles.knee =
          [left |-> Whole(160), right |-> Whole(150), symmetry |-> Whole(74)]
    /\ call.realTimeData.jointAngles.elbow =
          [left |-> Whole(70), right |-> Whole(96), symmetry |-> Whole(74)]
    /\ Len(ret.actionableFeedback) = 2
    /\ ret.actionableFeedback[1].priority = "high"
    /\ ret.actionableFeedback[1].message[1] = "Reduce left knee angle by "
    /\ ret.actionableFeedback[2].priority = "medium"
    /\ "actionable-feedback" \in ret.sections

-----------------------------------------------------------------------------
(* The source of the Dashboard during a live session, checked under Spec. *)

\* C12 (as claimed): session summaries are only exposed once the session is
\* finalized: while a live session is active sessionAverages stays null and
\* the Dashboard renders from live data; the Dashboard renders from
\* sessionAverages only after the session has ended.
C12_SummaryOnlyAfterSessionEnds ==
    /\ isRealTime => sessionAverages = Null
    /\ MetricsSource(realTimeData, sessionAverages) = "sessionAverages" => ~isRealTime

-----------------------------------------------------------------------------
(* Specification of the asymmetry classifier: the inputs of the band
   matcher, and the one action evaluates getAsymmetryFeedback on them with
   the default config. *)

InitAsymmetry ==
    /\ call \in [fn : {"getAsymmetryFeedback"}, metricType : MetricTypes, value : Values]
    /\ ret = NoRet
    /\ AppInit

CallGetAsymmetryFeedback ==
    /\ call.fn = "getAsymmetryFeedback"
    /\ ret = NoRet
    /\ ret' = getAsymmetryFeedback(call.metricType, call.value, feedbackConfig)
    /\ UNCHANGED <<call, appVars>>

NextAsymmetry == CallGetAsymmetryFeedback

SpecAsymmetry == InitAsymmetry /\ [][NextAsymmetry]_vars

AsymmetryReturned == call.fn = "getAsymmetryFeedback" /\ ret # NoRet

\* a whole number of the 1/Scale grid between two whole bounds
WholeBetween(value, low, high) ==
    value % Scale = 0 /\ low * Scale <= value /\ value <= high * Scale

\* C21 (as claimed): knee symmetry is classified the same way by both
\* classifiers: for every integer score 0..100,
\* getAsymmetryFeedback('kneeSymmetry', score) and
\* getFeedbackForMetric('kneeSymmetry', score) return the same threshold and
\* the same message.
C21_ClassifiersAgree ==
    (/\ AsymmetryReturned
     /\ call.metricType = "kneeSymmetry"
     /\ WholeBetween(call.value, 0, 100)) =>
        LET generic == getFeedbackForMetric("kneeSymmetry", call.value, feedbackConfig)
        IN  /\ ret.threshold = generic.threshold
            /\ ret.message = generic.message

\* the four classes, from worst to best
Quality == [bad |-> 0, needsImprovement |-> 1, good |-> 2, excellent |-> 3]

\* the class of the next value of the grid
NextAsymmetryClass ==
    getAsymmetryFeedback(call.metricType, call.value + 1, feedbackConfig).type

\* C22: getAsymmetryFeedback is monotone: for 'kneeSymmetry' the class is
\* excellent for score >= 90, good for 75 <= score < 90, needsImprovement for
\* 50 <= score < 75 and bad below 50, and a higher score never gives a worse
\* class; for the 'elbow' difference the class is excellent up to 5, good up
\* to 10, needsImprovement up to 20 and bad above, and a larger difference
\* never gives a better class.
C22_AsymmetryMonotone ==
    AsymmetryReturned =>
        /\ call.metricType = "kneeSymmetry" =>
              /\ ret.type = (IF call.value >= 90 * Scale THEN "excellent"
                             ELSE IF call.value >= 75 * Scale THEN "good"
                             ELSE IF call.value >= 50 * Scale THEN "needsImprovement"
                             ELSE "bad")
              /\ (call.value + 1 \in Values) =>
                    Quality[NextAsymmetryClass] >= Quality[ret.type]
        /\ call.metricType = "elbow" =>
              /\ ret.type = (IF call.value <= 5 * Scale THEN "excellent"
                             ELSE IF call.value <= 10 * Scale THEN "good"
                             ELSE IF call.value <= 20 * Scale THEN "needsImprovement"
                             ELSE "bad")
              /\ (call.value + 1 \in Values) =>
                    Quality[NextAsymmetryClass] <= Quality[ret.type]

C22_Witness ==
    /\ AsymmetryReturned
    /\ call.metricType = "elbow"
    /\ call.value = 10 * Scale
    /\ ret.type = "good"
    /\ NextAsymmetryClass = "needsImprovement"

\* C23 (as claimed): getAsymmetryFeedback returns a feedback object and never
\* throws, for every metric type and every numeric value: a metric type
\* without configuration gives type 'info', and every metric type of
\* feedbackConfig gives one of excellent, good, needsImprovement or bad with
\* that band's message.
C23_AsymmetryNeverThrows ==
    AsymmetryReturned =>
        /\ ret # Throw("TypeError")
        /\ IF call.metricType \in DOMAIN feedbackConfig
           THEN /\ ret.type \in DOMAIN Quality
                /\ ret.message \in
                      {feedbackConfig[call.metricType][ret.type].message,
                       feedbackConfig.elbow.asymmetry[ret.type].message}
           ELSE ret.type = "info"

-----------------------------------------------------------------------------
(* The CSS class of a symmetry score in the three views. *)

\* a fourth class 'fair' for needsImprovement, which the style sheet of the
\* later version knows
getStatusClassWithFair(threshold) ==
    IF threshold = "" THEN "needs-improvement"
    ELSE IF threshold = "excellent" THEN "excellent"
    ELSE IF threshold = "good" THEN "good"
    ELSE IF threshold = "needsImprovement" THEN "fair"
    ELSE "needs-improvement"

\* Dashboard: const getStatusClass = (threshold) => { ... }; threshold is
\* the threshold or type of a feedback object, a string (falsy when empty)
getStatusClass(threshold) ==
    IF threshold = "" THEN "needs-improvement"
    ELSE IF threshold = "excellent" THEN "excellent"
    ELSE IF threshold = "good" THEN "good"
    ELSE IF threshold = "needsImprovement" THEN "needs-improvement"
    ELSE IF threshold = "bad" THEN "needs-improvement"
    ELSE IF threshold = "tooForward" THEN "needs-improvement"
    ELSE IF threshold = "tooBackward" THEN "needs-improvement"
    ELSE "needs-improvement"

\* Dashboard: const getSymmetryClass = (score) => { ... }
\*   getStatusClass(feedback.threshold || feedback.type)
getSymmetryClass(score) ==
    LET feedback == getAsymmetryFeedback("kneeSymmetry", score, feedbackConfig)
    IN  getStatusClass(IF "threshold" \in DOMAIN feedback
                       THEN feedback.threshold ELSE feedback.type)

\* FormAnalysis: const getSymmetryClass = (score) => { ... }
FormAnalysisGetSymmetryClass(score) ==
    IF score >= 90 * Scale THEN "excellent"
    ELSE IF score >= 75 * Scale THEN "good"
    ELSE "needs-improvement"

\* JointAngles: className={`symmetry-fill ${symmetry >= 90 ? 'excellent'
\* : symmetry >= 75 ? 'good' : 'needs-improvement'}`}
SymmetryFill(score) ==
    IF score >= 90 * Scale THEN "excellent"
    ELSE IF score >= 75 * Scale THEN "good"
    ELSE "needs-improvement"

-----------------------------------------------------------------------------
(* The helpers of the Dashboard as pure functions: the two conversions on
   jointAngles of every pair of whole knee and elbow symmetry scores. *)

\* knee.symmetry and elbow.symmetry: every whole percentage
Percentages == 0 .. 100

ScoredJointAngles ==
    {JointAngles(k, e, <<80, 80>>, -12) : k \in Percentages, e \in Percentages}

\* arguments of generateRecommendations: scores and head angles on both
\* sides of the thresholds 75 and 10, and sums of two scores (twice the
\* overall symmetry) on both sides of 150, one grid step below included
ThresholdJointAngles ==
    {JointAngles(k, e, <<80, 80>>, head) :
        k \in {0, 74, 75, 100}, e \in {0, 74, 75, 100},
        head \in {-11, -10, 0, 10, 11}}
SymmetrySums == {Num(0), Num(150 * Scale - 1), Whole(150), Whole(200)}

InitHelpers ==
    /\ call \in
          [fn : {"convertRealTimeDataToDashboardFormat"}, rtData : ScoredJointAngles]
          \cup [fn : {"convertSessionAveragesToDashboardFormat"},
                avgData : {SessionSummary(1799, ja) : ja \in ScoredJointAngles}]
          \cup [fn : {"generateRecommendations", "generateRecommendationsLater"},
                jointAngles : ThresholdJointAngles, symmetrySum : SymmetrySums]
          \cup [fn : {"getSymmetryClass"},
                view : {"Dashboard", "FormAnalysis", "JointAngles"}, score : Values]
    /\ ret = NoRet
    /\ AppInit

CallConvertRealTimeData ==
    /\ call.fn = "convertRealTimeDataToDashboardFormat"
    /\ ret = NoRet
    /\ ret' = convertRealTimeDataToDashboardFormat(call.rtData)
    /\ UNCHANGED <<call, appVars>>

CallConvertSessionAverages ==
    /\ call.fn = "convertSessionAveragesToDashboardFormat"
    /\ ret = NoRet
    /\ ret' = convertSessionAveragesToDashboardFormat(call.avgData)
    /\ UNCHANGED <<call, appVars>>

CallGenerateRecommendations ==
    /\ call.fn = "generateRecommendations"
    /\ ret = NoRet
    /\ ret' = [recommendations |->
                  generateRecommendations(call.jointAngles, call.symmetrySum, Num(0))]
    /\ UNCHANGED <<call, appVars>>

CallGenerateRecommendationsLater ==
    /\ call.fn = "generateRecommendationsLater"
    /\ ret = NoRet
    /\ ret' = [recommendations |->
                  generateRecommendationsLater(call.jointAngles, call.symmetrySum)]
    /\ UNCHANGED <<call, appVars>>

CallGetSymmetryClass ==
    /\ call.fn = "getSymmetryClass"
    /\ ret = NoRet
    /\ ret' = [class |->
                  IF call.view = "Dashboard" THEN getSymmetryClass(call.score)
                  ELSE IF call.view = "FormAnalysis"
                  THEN FormAnalysisGetSymmetryClass(call.score)
                  ELSE SymmetryFill(call.score)]
    /\ UNCHANGED <<call, appVars>>

NextHelpers ==
    \/ CallGetSymmetryClass
    \/ CallConvertRealTimeData
    \/ CallConvertSessionAverages
    \/ CallGenerateRecommendations
    \/ CallGenerateRecommendationsLater

SpecHelpers == InitHelpers /\ [][NextHelpers]_vars

Converted ==
    /\ ret # NoRet
    /\ call.fn \in {"convertRealTimeDataToDashboardFormat",
                    "convertSessionAveragesToDashboardFormat"}

\* the jointAngles a conversion was called on
ConvertedJointAngles ==
    IF call.fn = "convertRealTimeDataToDashboardFormat"
    THEN call.rtData ELSE call.avgData.jointAngles

\* C24 (as claimed): both Dashboard conversions compute overall symmetry as
\* the rounded average of knee and elbow symmetry: for the same jointAngles
\* (knee.symmetry and elbow.symmetry any integers 0..100) the two return the
\* same overallSymmetry, equal to round((knee.symmetry + elbow.symmetry) / 2).
C24_SameOverallSymmetry ==
    Converted =>
        LET ja == ConvertedJointAngles
            knee == ja.knee.symmetry.value \div Scale
            elbow == ja.elbow.symmetry.value \div Scale
        IN  /\ ret.overallSymmetry = Num(MathRound(knee + elbow, 2))
            /\ convertRealTimeDataToDashboardFormat(ja).overallSymmetry
                  = convertSessionAveragesToDashboardFormat(
                        SessionSummary(1799, ja)).overallSymmetry

Recommended ==
    /\ ret # NoRet
    /\ call.fn \in {"generateRecommendations", "generateRecommendationsLater"}

\* the conditions of the claim with their messages, in order; the last one
\* belongs to the first version only
RecommendationIf(cond, text) == IF cond THEN <<text>> ELSE <<>>
ExpectedRecommendations ==
    RecommendationIf(call.symmetrySum.value < 2 * 75 * Scale,
        "Focus on improving overall symmetry between left and right sides")
    \o RecommendationIf(call.jointAngles.knee.symmetry.value < 75 * Scale,
        "Work on balancing knee angles between both legs")
    \o RecommendationIf(call.jointAngles.elbow.symmetry.value < 75 * Scale,
        "Maintain balanced arm swing for better symmetry")
    \o RecommendationIf(call.fn = "generateRecommendations"
                           /\ Abs(call.jointAngles.backToHead.angle.value) > 10 * Scale,
        "Keep your head aligned with your back for better posture")

\* C26: generateRecommendations never returns an empty list: it returns the
\* single 'Great job maintaining good form!' message exactly when none of its
\* conditions holds (overall symmetry < 75, knee symmetry < 75, elbow
\* symmetry < 75 and, in the first Dashboard version, |backToHead.angle| >
\* 10), and otherwise one recommendation per condition that holds, in that
\* order, without the 'Great job' message.
C26_RecommendationsNeverEmpty ==
    Recommended =>
        /\ ret.recommendations # <<>>
        /\ ret.recommendations =
              (IF ExpectedRecommendations = <<>>
               THEN <<"Great job maintaining good form! Keep up the excellent work.">>
               ELSE ExpectedRecommendations)

C26_Witness ==
    /\ Recommended
    /\ call.fn = "generateRecommendations"
    /\ call.symmetrySum = Whole(150)
    /\ call.jointAngles.backToHead.angle = Whole(10)
    /\ call.jointAngles.knee.symmetry = Whole(75)
    /\ call.jointAngles.elbow.symmetry = Whole(75)
    /\ ret.recommendations =
          <<"Great job maintaining good form! Keep up the excellent work.">>

Classified == ret # NoRet /\ call.fn = "getSymmetryClass"

\* C25: Dashboard's symmetry class agrees with the fixed thresholds of the
\* other views: for every score, Dashboard.getSymmetryClass returns
\* 'excellent' when score >= 90, 'good' when 75 <= score < 90 and
\* 'needs-improvement' otherwise, exactly as FormAnalysis.getSymmetryClass
\* and the JointAngles symmetry bar do.
C25_SymmetryClassAgrees ==
    Classified =>
        /\ ret.class = (IF call.score >= 90 * Scale THEN "excellent"
                        ELSE IF call.score >= 75 * Scale THEN "good"
                        ELSE "needs-improvement")
        /\ getSymmetryClass(call.score) = FormAnalysisGetSymmetryClass(call.score)
        /\ getSymmetryClass(call.score) = SymmetryFill(call.score)

C25_Witness ==
    /\ Classified
    /\ call.view = "Dashboard"
    /\ call.score = 50 * Scale
    /\ getAsymmetryFeedback("kneeSymmetry", call.score, feedbackConfig).threshold
          = "needsImprovement"
    /\ ret.class = "needs-improvement"

=============================================================================
